---------------------------- MODULE Spec2Model ----------------------------
(***************************************************************************)
(* The academic-requirement reasoning engine of the roadmap API:           *)
(*   app/services/prerequisite_service.py  (formula evaluation, the        *)
(*                                          prerequisite tree)             *)
(*   app/services/requirement_service.py   (requirement progress, the      *)
(*                                          recommender, special rules)    *)
(*                                                                         *)
(*   app/services/roadmap_service.py       (roadmap generation and its     *)
(*                                          cache)                         *)
(*                                                                         *)
(* The database is the pair (catalog, programs).  The prerequisite and     *)
(* requirement services keep no state between calls, so a behaviour makes  *)
(* one call against every database with every argument.  The roadmap       *)
(* service keeps its cache from call to call; its behaviours are sequences *)
(* of calls.                                                               *)
(***************************************************************************)
EXTENDS Integers, Sequences, FiniteSets, TLC

VARIABLES
    catalog,    \* the courses table: course code -> Course row
    programs,   \* the programs table: program code -> Program row
    call,       \* the service call made: [op |-> ..., arguments]
    result,     \* its outcome: Pending, Ok(value) or Raised(error)
    stack,      \* get_prerequisite_tree: the recursion's frames, innermost last
    roadmap_cache, \* roadmap_service._roadmap_cache: key -> (roadmap, cached_at)
    now         \* datetime.utcnow(), in seconds

vars == <<catalog, programs, call, result, stack, roadmap_cache, now>>

(***************************************************************************)
(* Python strings.  str.upper() and str.strip() over the strings of the    *)
(* model; sorted() orders strings by code point, so " " < "A".."Z" < "a".  *)
(***************************************************************************)
Upper(s) ==
    CASE s = "a" -> "A"
      [] s = "b" -> "B"
      [] s = " a" -> " A"
      [] s = "and" -> "AND"
      [] s = "or" -> "OR"
      [] s = "course" -> "COURSE"
      [] s = "xor" -> "XOR"
      [] OTHER -> s

Strip(s) ==
    CASE s = " A" -> "A"
      [] s = " a" -> "a"
      [] s = "A " -> "A"
      [] OTHER -> s

\* upper().strip(), the normalisation of a caller's course code
Normalize(s) == Strip(Upper(s))

\* The model's strings in Python's order (code points).
StringOrder == <<"", " A", " a", "A", "A ", "B", "C", "D", "Z", "a", "b">>

Rank(s) == CHOOSE i \in 1..Len(StringOrder) : StringOrder[i] = s

StrLess(s, t) == Rank(s) < Rank(t)

RECURSIVE Insert(_, _)
Insert(x, sorted) ==
    IF sorted = <<>> THEN <<x>>
    ELSE IF StrLess(x, Head(sorted)) THEN <<x>> \o sorted
    ELSE <<Head(sorted)>> \o Insert(x, Tail(sorted))

\* sorted(list): ascending, duplicates kept
RECURSIVE Sorted(_)
Sorted(list) ==
    IF list = <<>> THEN <<>> ELSE Insert(Head(list), Sorted(Tail(list)))

\* sorted(set)
RECURSIVE SortedSet(_)
SortedSet(S) ==
    IF S = {} THEN <<>>
    ELSE LET least == CHOOSE x \in S : \A y \in S : ~StrLess(y, x)
         IN  <<least>> \o SortedSet(S \ {least})

Range(list) == {list[i] : i \in DOMAIN list}

(***************************************************************************)
(* JSON values.  A dict is a record holding exactly the keys present; a    *)
(* string, a number and None are wrapped so that values of different       *)
(* Python types can be told apart (isinstance).                            *)
(***************************************************************************)
JStr(s) == [str |-> s]
JNum(n) == [num |-> n]
JNone == [none |-> TRUE]
EmptyDict == [emptydict |-> TRUE]

IsStr(v) == DOMAIN v = {"str"}
IsNum(v) == DOMAIN v = {"num"}
IsDict(v) == ~IsStr(v) /\ ~IsNum(v) /\ v # JNone

\* bool(v) is False: None, {} and ""
Falsy(v) == v = JNone \/ v = EmptyDict \/ v = JStr("")

\* The formula nodes as the seed data writes them.
CourseLeaf(code) == [type |-> "COURSE", code |-> JStr(code)]
AndNode(conditions) == [type |-> "AND", conditions |-> conditions]
OrNode(conditions) == [type |-> "OR", conditions |-> conditions]

\* formula.get("type", "").upper()
FormulaType(formula) ==
    Upper(IF "type" \in DOMAIN formula THEN formula.type ELSE "")

\* formula.get("conditions", [])
Conditions(formula) ==
    IF "conditions" \in DOMAIN formula THEN formula.conditions ELSE <<>>

(***************************************************************************)
(* prerequisite_service._evaluate_formula                                  *)
(***************************************************************************)
Evaluation(is_valid, missing, satisfied) ==
    [is_valid |-> is_valid, missing |-> missing, satisfied |-> satisfied]

RECURSIVE evaluate_formula(_, _)

\* and_loop stopping at the first condition that fails.
RECURSIVE and_loop_short_circuit(_, _, _, _, _, _)
and_loop_short_circuit(conditions, completed, i, is_valid, all_missing, all_satisfied) ==
    IF i > Len(conditions)
    THEN Evaluation(is_valid, all_missing, all_satisfied)
    ELSE LET r == evaluate_formula(conditions[i], completed)
         IN  IF ~r.is_valid
             THEN Evaluation(FALSE, all_missing \o r.missing, all_satisfied)
             ELSE and_loop_short_circuit(conditions, completed, i + 1, is_valid,
                                         all_missing \o r.missing,
                                         all_satisfied \o r.satisfied)

\* The AND branch's loop, from condition i on.
RECURSIVE and_loop(_, _, _, _, _, _)
and_loop(conditions, completed, i, is_valid, all_missing, all_satisfied) ==
    IF i > Len(conditions)
    THEN Evaluation(is_valid, all_missing, all_satisfied)
    ELSE LET r == evaluate_formula(conditions[i], completed)
         IN  and_loop(conditions, completed, i + 1,
                      IF ~r.is_valid THEN FALSE ELSE is_valid,
                      all_missing \o r.missing,
                      all_satisfied \o r.satisfied)

\* or_loop in which every condition has to hold.
RECURSIVE or_loop_requires_all(_, _, _, _)
or_loop_requires_all(conditions, completed, i, all_missing) ==
    IF i > Len(conditions)
    THEN Evaluation(all_missing = <<>> /\ conditions # <<>>, all_missing, <<>>)
    ELSE LET r == evaluate_formula(conditions[i], completed)
         IN  or_loop_requires_all(conditions, completed, i + 1, all_missing \o r.missing)

\* or_loop going on after a satisfied condition and collecting from all of them.
RECURSIVE or_loop_collect_all(_, _, _, _)
or_loop_collect_all(conditions, completed, i, all_missing) ==
    IF i > Len(conditions)
    THEN Evaluation(FALSE, all_missing, <<>>)
    ELSE LET r == evaluate_formula(conditions[i], completed)
             rest == or_loop_collect_all(conditions, completed, i + 1,
                                         all_missing \o r.missing)
         IN  IF r.is_valid
             THEN Evaluation(TRUE, <<>>, r.satisfied \o rest.satisfied)
             ELSE rest

\* or_loop keeping, when a condition holds, what the failed ones missed.
RECURSIVE or_loop_keeps_missing(_, _, _, _)
or_loop_keeps_missing(conditions, completed, i, all_missing) ==
    IF i > Len(conditions)
    THEN Evaluation(FALSE, all_missing, <<>>)
    ELSE LET r == evaluate_formula(conditions[i], completed)
         IN  IF r.is_valid
             THEN Evaluation(TRUE, all_missing, r.satisfied)
             ELSE or_loop_keeps_missing(conditions, completed, i + 1,
                                        all_missing \o r.missing)

\* or_loop holding when exactly one condition holds.
or_loop_exactly_one(conditions, completed, i, all_missing) ==
    LET holding == {k \in i..Len(conditions) :
                       evaluate_formula(conditions[k], completed).is_valid}
    IN  IF Cardinality(holding) = 1
        THEN Evaluation(TRUE, <<>>,
                        evaluate_formula(conditions[CHOOSE k \in holding : TRUE],
                                         completed).satisfied)
        ELSE Evaluation(FALSE, all_missing, <<>>)

\* The OR branch's loop, from condition i on.
RECURSIVE or_loop(_, _, _, _)
or_loop(conditions, completed, i, all_missing) ==
    IF i > Len(conditions)
    THEN Evaluation(FALSE, all_missing, <<>>)
    ELSE LET r == evaluate_formula(conditions[i], completed)
         IN  IF r.is_valid
             THEN Evaluation(TRUE, <<>>, r.satisfied)
             ELSE or_loop(conditions, completed, i + 1, all_missing \o r.missing)

\* The COURSE branch looking the code up as it is written.
course_leaf_as_written(formula, completed) ==
    LET course_code == IF "code" \in DOMAIN formula THEN formula.code ELSE JStr("")
    IN  IF IsDict(course_code)
        THEN evaluate_formula(course_code, completed)
        ELSE IF IsStr(course_code)
        THEN IF course_code.str \in completed
             THEN Evaluation(TRUE, <<>>, <<course_code.str>>)
             ELSE Evaluation(FALSE, <<course_code.str>>, <<>>)
        ELSE Evaluation(FALSE, <<>>, <<>>)

\* The COURSE branch.
course_leaf(formula, completed) ==
    LET course_code == IF "code" \in DOMAIN formula THEN formula.code ELSE JStr("")
    IN  IF IsDict(course_code)
        THEN evaluate_formula(course_code, completed)
        ELSE IF IsStr(course_code)
        THEN IF Upper(course_code.str) \in completed
             THEN Evaluation(TRUE, <<>>, <<course_code.str>>)
             ELSE Evaluation(FALSE, <<course_code.str>>, <<>>)
        ELSE Evaluation(FALSE, <<>>, <<>>)

evaluate_formula(formula, completed) ==
    IF Falsy(formula) THEN Evaluation(TRUE, <<>>, <<>>)
    ELSE LET formula_type == FormulaType(formula)
         IN  CASE formula_type = "COURSE" -> course_leaf(formula, completed)
               [] formula_type = "AND" ->
                      and_loop(Conditions(formula), completed, 1, TRUE, <<>>, <<>>)
               [] formula_type = "OR" ->
                      or_loop(Conditions(formula), completed, 1, <<>>)
               [] OTHER -> Evaluation(FALSE, <<>>, <<>>)


(***************************************************************************)
(* prerequisite_service._format_formula_description.  The text is kept as  *)
(* the list of its pieces; `" OR " in d` asks whether a connective is one  *)
(* of them.  A COURSE leaf returns its "code" value as it is, so the       *)
(* description of a leaf whose code is no string is no string either: None *)
(* for a null code (NoDescription), some other value otherwise (NotText).  *)
(* Joining such a value, or formula.get on None, raises (FormatRaised).    *)
(***************************************************************************)
Text(pieces) == [text |-> pieces]
NotText == [nottext |-> TRUE]
NoDescription == [nodescription |-> TRUE]
FormatRaised == [raised |-> TRUE]
IsText(d) == DOMAIN d = {"text"}

RECURSIVE format_formula_description(_)

\* [_format_formula_description(c) for c in conditions]
descriptions_of(conditions) ==
    [i \in DOMAIN conditions |-> format_formula_description(conditions[i])]

\* connective.join(f"({d})" if other in d else d for d in descriptions)
RECURSIVE join_descriptions(_, _, _, _)
join_descriptions(descriptions, i, connective, other) ==
    IF i > Len(descriptions) THEN <<>>
    ELSE LET d == descriptions[i].text
             piece == IF other \in Range(d) THEN <<"(">> \o d \o <<")">> ELSE d
         IN  (IF i > 1 THEN <<connective>> ELSE <<>>) \o piece
                 \o join_descriptions(descriptions, i + 1, connective, other)

format_formula_description(formula) ==
    IF formula = JNone THEN FormatRaised
    ELSE LET formula_type == FormulaType(formula)
    IN  CASE formula_type = "COURSE" ->
                 IF "code" \in DOMAIN formula
                 THEN IF IsStr(formula.code) THEN Text(<<formula.code.str>>)
                      ELSE IF formula.code = JNone THEN NoDescription
                      ELSE NotText
                 ELSE Text(<<"Unknown course">>)
          [] formula_type \in {"AND", "OR"} ->
                 LET descriptions == descriptions_of(Conditions(formula))
                 IN  IF \E i \in DOMAIN descriptions : descriptions[i] = FormatRaised
                     THEN FormatRaised
                     ELSE IF Len(descriptions) = 1 THEN descriptions[1]
                     ELSE IF \E i \in DOMAIN descriptions : ~IsText(descriptions[i])
                     THEN FormatRaised
                     ELSE IF formula_type = "AND"
                     THEN Text(join_descriptions(descriptions, 1, " AND ", " OR "))
                     ELSE Text(join_descriptions(descriptions, 1, " OR ", " AND "))
          [] OTHER -> Text(<<"Unknown prerequisite formula">>)

(***************************************************************************)
(* Outcomes of a call.                                                     *)
(***************************************************************************)
Pending == [status |-> "pending"]
Ok(value) == [status |-> "ok", value |-> value]
Raised(error) == [status |-> "raised", error |-> error]
NoCall == [op |-> "none"]

\* set(c.upper().strip() for c in completed_courses)
completed_set_of(completed_courses) == {Normalize(c) : c \in completed_courses}

(***************************************************************************)
(* prerequisite_service.check_prerequisites                                *)
(***************************************************************************)
check_prerequisites(db, course_code, completed_courses) ==
    IF course_code \notin DOMAIN db
    THEN Raised("ValueError")
    ELSE LET course == db[course_code]
         IN  IF Falsy(course.prerequisite_formula)
             THEN Ok([is_valid |-> TRUE, missing_courses |-> <<>>,
                      satisfied_prerequisites |-> <<>>,
                      formula_description |-> Text(<<"No prerequisites required">>)])
             ELSE LET completed_set == completed_set_of(completed_courses)
                      e == evaluate_formula(course.prerequisite_formula, completed_set)
                      description == format_formula_description(course.prerequisite_formula)
                  IN  IF description = FormatRaised
                      THEN Raised("TypeError")
                      ELSE IF ~IsText(description) /\ description # NoDescription
                      THEN Raised("ValidationError")   \* formula_description: Optional[str]
                      ELSE Ok([is_valid |-> e.is_valid,
                               missing_courses |-> Sorted(e.missing),
                               satisfied_prerequisites |-> Sorted(e.satisfied),
                               formula_description |-> description])

\* prerequisite_service.validate_prerequisite_formula
validate_prerequisite_formula(formula, completed) ==
    evaluate_formula(formula, completed).is_valid

(***************************************************************************)
(* The rows of the courses table.                                          *)
(***************************************************************************)
Course(code, credits, level, subject, formula) ==
    [code |-> code, credits |-> credits, level |-> level, subject |-> subject,
     prerequisite_formula |-> formula]

(***************************************************************************)
(* Formula evaluation: every formula of at most MaxNodes nodes over the    *)
(* leaves EvalLeaves, as the prerequisite of course "T", against every     *)
(* completed set over CompletedCodes.                                      *)
(***************************************************************************)
MaxNodes == 4

EvalLeaves == {CourseLeaf("A"), CourseLeaf("b"), EmptyDict}
CompletedCodes == {"A", "B", "b"}

RECURSIVE FormulasOfSize(_, _)
RECURSIVE ConditionLists(_, _)

\* The formulas of exactly n nodes.
FormulasOfSize(n, leaves) ==
    IF n = 1
    THEN leaves \cup {AndNode(<<>>), OrNode(<<>>)}
    ELSE {AndNode(cs) : cs \in ConditionLists(n - 1, leaves)}
         \cup {OrNode(cs) : cs \in ConditionLists(n - 1, leaves)}

\* The non-empty lists of formulas of n nodes in all.
ConditionLists(n, leaves) ==
    UNION {{<<f>> \o rest : f \in FormulasOfSize(k, leaves),
                            rest \in (IF k = n THEN {<<>>}
                                      ELSE ConditionLists(n - k, leaves))}
           : k \in 1..n}

EvalFormulas ==
    {JNone} \cup UNION {FormulasOfSize(n, EvalLeaves) : n \in 1..MaxNodes}

EvalCatalogs == {("T" :> Course("T", 3, "200", "X", f)) : f \in EvalFormulas}

InitEval ==
    /\ catalog \in EvalCatalogs
    /\ programs = <<>>
    /\ call = NoCall
    /\ result = Pending
    /\ stack = <<>>
    /\ roadmap_cache = <<>>
    /\ now = 0

\* _evaluate_formula on a course's formula and a caller's set, as
\* validate_prerequisite_formula hands them over.
EvaluateFormula ==
    /\ call = NoCall
    /\ \E code \in DOMAIN catalog, completed \in SUBSET CompletedCodes :
          /\ call' = [op |-> "_evaluate_formula",
                      formula |-> catalog[code].prerequisite_formula,
                      completed |-> completed]
          /\ result' = Ok(evaluate_formula(catalog[code].prerequisite_formula, completed))
    /\ UNCHANGED <<roadmap_cache, now, catalog, programs, stack>>

ValidatePrerequisiteFormula ==
    /\ call = NoCall
    /\ \E code \in DOMAIN catalog, completed \in SUBSET CompletedCodes :
          /\ call' = [op |-> "validate_prerequisite_formula",
                      formula |-> catalog[code].prerequisite_formula,
                      completed |-> completed]
          /\ result' = Ok(validate_prerequisite_formula(
                              catalog[code].prerequisite_formula, completed))
    /\ UNCHANGED <<roadmap_cache, now, catalog, programs, stack>>

CheckPrerequisites ==
    /\ call = NoCall
    /\ \E course_code \in DOMAIN catalog \cup {"Z"},
          completed_courses \in SUBSET CompletedCodes :
          /\ call' = [op |-> "check_prerequisites", course_code |-> course_code,
                      completed |-> completed_courses]
          /\ result' = check_prerequisites(catalog, course_code, completed_courses)
    /\ UNCHANGED <<roadmap_cache, now, catalog, programs, stack>>

NextEval == EvaluateFormula \/ ValidatePrerequisiteFormula \/ CheckPrerequisites

SpecEval == InitEval /\ [][NextEval]_vars

(***************************************************************************)
(* Formula evaluation: the claims.                                         *)
(***************************************************************************)
Evaluated == call.op = "_evaluate_formula" /\ result.status = "ok"

\* Built from COURSE leaves with string codes, AND nodes, OR nodes and the
\* empty formula.
RECURSIVE WellFormed(_)
WellFormed(f) ==
    \/ Falsy(f)
    \/ /\ DOMAIN f = {"type", "code"} /\ f.type = "COURSE" /\ IsStr(f.code)
    \/ /\ DOMAIN f = {"type", "conditions"} /\ f.type \in {"AND", "OR"}
       /\ \A i \in DOMAIN f.conditions : WellFormed(f.conditions[i])

\* Satisfaction as the claim words it: a leaf holds when its code is in C.
RECURSIVE SatisfiedLiterally(_, _)
SatisfiedLiterally(f, C) ==
    \/ Falsy(f)
    \/ "type" \in DOMAIN f /\ f.type = "COURSE" /\ f.code.str \in C
    \/ "type" \in DOMAIN f /\ f.type = "AND"
          /\ \A i \in DOMAIN f.conditions : SatisfiedLiterally(f.conditions[i], C)
    \/ "type" \in DOMAIN f /\ f.type = "OR"
          /\ \E i \in DOMAIN f.conditions : SatisfiedLiterally(f.conditions[i], C)

\* Satisfaction with a leaf holding when its code, uppercased, is in C.
RECURSIVE Satisfied(_, _)
Satisfied(f, C) ==
    \/ Falsy(f)
    \/ "type" \in DOMAIN f /\ f.type = "COURSE" /\ Upper(f.code.str) \in C
    \/ "type" \in DOMAIN f /\ f.type = "AND"
          /\ \A i \in DOMAIN f.conditions : Satisfied(f.conditions[i], C)
    \/ "type" \in DOMAIN f /\ f.type = "OR"
          /\ \E i \in DOMAIN f.conditions : Satisfied(f.conditions[i], C)

\* C1 as stated: a well-formed formula is reported satisfied iff it is a
\* COURSE leaf whose code is in C, an AND whose every child is satisfied, an
\* OR with a satisfied child, or empty.
C1_AsStated ==
    (Evaluated /\ WellFormed(call.formula))
        => (result.value.is_valid <=> SatisfiedLiterally(call.formula, call.completed))

\* C1 amended: the same, with a COURSE leaf satisfied iff its code,
\* uppercased, is in C.
C1_SatisfiedIff ==
    (Evaluated /\ WellFormed(call.formula))
        => (result.value.is_valid <=> Satisfied(call.formula, call.completed))

\* An OR whose first child fails and whose second, a lower-case leaf, holds
\* through its uppercased code.
C1_Witness ==
    /\ Evaluated
    /\ call.formula = OrNode(<<CourseLeaf("A"), CourseLeaf("b")>>)
    /\ call.completed = {"B"}
    /\ result.value.is_valid

TopType(type) == Evaluated /\ FormulaType(call.formula) = type /\ ~Falsy(call.formula)

ChildResult(i) == evaluate_formula(call.formula.conditions[i], call.completed)

\* C2: for an OR node with a satisfied child, the first satisfied child in
\* declaration order decides: the result is satisfied, its missing list is
\* empty and its satisfied list is that child's satisfied list, so nothing of
\* earlier failed or of later siblings is in it.
C2_OrFirstSatisfied ==
    TopType("OR") =>
        \A i \in DOMAIN call.formula.conditions :
            (ChildResult(i).is_valid /\ \A j \in 1..(i - 1) : ~ChildResult(j).is_valid)
                => result.value = Evaluation(TRUE, <<>>, ChildResult(i).satisfied)

\* An OR whose first child fails with a missing code, whose second child
\* holds and whose third would hold too.
C2_Witness ==
    /\ TopType("OR")
    /\ call.formula = OrNode(<<CourseLeaf("A"), CourseLeaf("b"), EmptyDict>>)
    /\ call.completed = {"B"}
    /\ result.value = Evaluation(TRUE, <<>>, <<"b">>)

RECURSIVE ConcatMissing(_)
ConcatMissing(i) ==
    IF i = 0 THEN <<>> ELSE ConcatMissing(i - 1) \o ChildResult(i).missing

RECURSIVE ConcatSatisfied(_)
ConcatSatisfied(i) ==
    IF i = 0 THEN <<>> ELSE ConcatSatisfied(i - 1) \o ChildResult(i).satisfied

\* C3: for an AND node the missing list is the concatenation, in child
\* order, of every child's missing list, the satisfied list that of every
\* child's satisfied list, and it is satisfied iff every child is.
C3_AndCollectsAll ==
    TopType("AND") =>
        LET n == Len(call.formula.conditions)
        IN  /\ result.value.missing = ConcatMissing(n)
            /\ result.value.satisfied = ConcatSatisfied(n)
            /\ result.value.is_valid <=> \A i \in 1..n : ChildResult(i).is_valid

\* An AND whose first child fails and whose later children still add a
\* satisfied and a missing code.
C3_Witness ==
    /\ TopType("AND")
    /\ call.formula = AndNode(<<CourseLeaf("b"), CourseLeaf("A"), CourseLeaf("b")>>)
    /\ call.completed = {"A"}
    /\ result.value = Evaluation(FALSE, <<"b", "b">>, <<"A">>)

(***************************************************************************)
(* Numbers.  A percentage is the exact fraction the float division         *)
(* approximates, in lowest terms, so that two of them are equal iff they   *)
(* are the same record.                                                    *)
(***************************************************************************)
RECURSIVE GCD(_, _)
GCD(a, b) == IF b = 0 THEN a ELSE GCD(b, a % b)

\* n / d, for d > 0 and n >= 0
Fraction(n, d) == LET g == GCD(n, d) IN [num |-> n \div g, den |-> d \div g]

Whole(n) == [num |-> n, den |-> 1]

\* completed / required * 100
Percentage(completed, required) == Fraction(completed * 100, required)

\* min(x, 100) without the bound
not_bounded(x) == x

\* min(x, 100)
AtMost100(x) == IF x.num > 100 * x.den THEN Whole(100) ELSE x

\* sum(courses[code].credits for code in codes)
RECURSIVE SumCredits(_, _)
SumCredits(codes, courses) ==
    IF codes = {} THEN 0
    ELSE LET code == CHOOSE c \in codes : TRUE
         IN  courses[code].credits + SumCredits(codes \ {code}, courses)

(***************************************************************************)
(* The rows of the requirements and programs tables.  A nullable column    *)
(* holds JNone or the wrapped value.                                       *)
(***************************************************************************)
Requirement(id, type, courses, credits_needed, choose_count, level_filter, subject_filter, order_index) ==
    [id |-> id, requirement_type |-> type, courses |-> courses,
     credits_needed |-> credits_needed, choose_count |-> choose_count,
     level_filter |-> level_filter, subject_filter |-> subject_filter,
     order_index |-> order_index]

Program(code, total_credits, special_rules, program_requirements) ==
    [code |-> code, total_credits |-> total_credits, special_rules |-> special_rules,
     program_requirements |-> program_requirements]

\* `x or default` on a nullable integer column
IntOr(x, default) == IF x = JNone \/ x.num = 0 THEN default ELSE x.num

RequirementProgress(req, required_count, completed_count, is_satisfied, completed_courses, remaining_courses, progress) ==
    [requirement_id |-> req.id, requirement_type |-> req.requirement_type,
     required_count |-> required_count, completed_count |-> completed_count,
     is_satisfied |-> is_satisfied, completed_courses |-> completed_courses,
     remaining_courses |-> remaining_courses, progress_percentage |-> progress]

(***************************************************************************)
(* requirement_service._validate_single_requirement, branch by branch      *)
(***************************************************************************)
\* the REQUIRED branch counting a requirement satisfied once any course is done
required_progress_any(req, completed_set) ==
    LET required_courses == {Upper(c) : c \in Range(req.courses)}
        completed_in_req == required_courses \cap completed_set
        remaining == required_courses \ completed_set
        required_count == Cardinality(required_courses)
        completed_count == Cardinality(completed_in_req)
    IN  RequirementProgress(req, JNum(required_count), completed_count,
            completed_count > 0 \/ required_count = 0,
            SortedSet(completed_in_req), SortedSet(remaining),
            IF required_count > 0 THEN Percentage(completed_count, required_count)
            ELSE Whole(100))

required_progress(req, completed_set) ==
    LET required_courses == {Upper(c) : c \in Range(req.courses)}
        completed_in_req == required_courses \cap completed_set
        remaining == required_courses \ completed_set
        required_count == Cardinality(required_courses)
        completed_count == Cardinality(completed_in_req)
        is_satisfied == Cardinality(remaining) = 0
        progress == IF required_count > 0
                    THEN Percentage(completed_count, required_count)
                    ELSE Whole(100)
    IN  RequirementProgress(req, JNum(required_count), completed_count, is_satisfied,
                            SortedSet(completed_in_req), SortedSet(remaining), progress)

\* the CHOICE branch asking for more than choose_count courses
choice_progress_strict(req, completed_set) ==
    LET choice_courses == {Upper(c) : c \in Range(req.courses)}
        completed_in_req == choice_courses \cap completed_set
        required_count == IntOr(req.choose_count, 1)
        completed_count == Cardinality(completed_in_req)
    IN  RequirementProgress(req, JNum(required_count), completed_count,
            completed_count > required_count,
            SortedSet(completed_in_req), SortedSet(choice_courses \ completed_set),
            IF required_count > 0
            THEN AtMost100(Percentage(completed_count, required_count))
            ELSE Whole(100))

choice_progress(req, completed_set) ==
    LET choice_courses == {Upper(c) : c \in Range(req.courses)}
        completed_in_req == choice_courses \cap completed_set
        remaining == choice_courses \ completed_set
        required_count == IntOr(req.choose_count, 1)
        completed_count == Cardinality(completed_in_req)
        is_satisfied == completed_count >= required_count
        progress == IF required_count > 0
                    THEN AtMost100(Percentage(completed_count, required_count))
                    ELSE Whole(100)
    IN  RequirementProgress(req, JNum(required_count), completed_count, is_satisfied,
                            SortedSet(completed_in_req), SortedSet(remaining), progress)

\* matches_filters without the subject test
matches_level_only(course, req) ==
    ~(req.level_filter # <<>> /\ course.level \notin Range(req.level_filter))

\* Whether a course passes the level and subject filters of a requirement.
matches_filters(course, req) ==
    LET level_filters == req.level_filter
        subject_filter == req.subject_filter
    IN  /\ ~(level_filters # <<>> /\ course.level \notin Range(level_filters))
        /\ ~(~Falsy(subject_filter) /\ course.subject # subject_filter.str)

\* the LEVEL_REQUIREMENT branch asking for more credits than credits_needed
level_progress_strict(req, completed_set, completed_courses_map) ==
    LET credits_needed == IntOr(req.credits_needed, 0)
        matching == {code \in completed_set \cap DOMAIN completed_courses_map :
                        matches_filters(completed_courses_map[code], req)}
        matching_credits == SumCredits(matching, completed_courses_map)
        matching_courses == {completed_courses_map[code].code : code \in matching}
    IN  RequirementProgress(req, JNum(credits_needed), matching_credits,
            matching_credits > credits_needed,
            SortedSet(matching_courses), <<>>,
            IF credits_needed > 0
            THEN AtMost100(Percentage(matching_credits, credits_needed))
            ELSE Whole(100))

level_progress(req, completed_set, completed_courses_map) ==
    LET credits_needed == IntOr(req.credits_needed, 0)
        matching == {code \in completed_set \cap DOMAIN completed_courses_map :
                        matches_filters(completed_courses_map[code], req)}
        matching_credits == SumCredits(matching, completed_courses_map)
        matching_courses == {completed_courses_map[code].code : code \in matching}
        is_satisfied == matching_credits >= credits_needed
        progress == IF credits_needed > 0
                    THEN AtMost100(Percentage(matching_credits, credits_needed))
                    ELSE Whole(100)
    IN  RequirementProgress(req, JNum(credits_needed), matching_credits, is_satisfied,
                            SortedSet(matching_courses), <<>>, progress)

elective_progress(req, completed_set) ==
    LET completed_count == Cardinality(completed_set)
        is_satisfied == completed_count > 0
    IN  RequirementProgress(req, JNone, completed_count, is_satisfied,
                            SortedSet(completed_set), <<>>,
                            IF is_satisfied THEN Whole(100) ELSE Whole(0))

validate_single_requirement(req, completed_set, completed_courses_map) ==
    LET req_type == req.requirement_type
    IN  CASE req_type = "REQUIRED" -> required_progress(req, completed_set)
          [] req_type = "CHOICE" -> choice_progress(req, completed_set)
          [] req_type = "LEVEL_REQUIREMENT" ->
                 level_progress(req, completed_set, completed_courses_map)
          [] OTHER -> elective_progress(req, completed_set)

\* {c.code: c for c in <courses whose code is in completed_set>}
completed_courses_map_of(db, completed_set) ==
    [code \in DOMAIN db \cap completed_set |-> db[code]]

(***************************************************************************)
(* requirement_service.validate_requirements                               *)
(***************************************************************************)
\* overall progress being 100 for a program without requirements
overall_progress_full_when_empty(satisfied_count, total_requirements) ==
    IF total_requirements > 0
    THEN Percentage(satisfied_count, total_requirements)
    ELSE Whole(100)

\* overall progress counting the requirements that are not satisfied
overall_progress_of_unsatisfied(satisfied_count, total_requirements) ==
    IF total_requirements > 0
    THEN Percentage(total_requirements - satisfied_count, total_requirements)
    ELSE Whole(0)

\* overall progress counting one requirement more than the program has
overall_progress_never_full(satisfied_count, total_requirements) ==
    IF total_requirements > 0
    THEN Percentage(satisfied_count, total_requirements + 1)
    ELSE Whole(0)

\* (satisfied_count / total_requirements * 100) if total_requirements > 0 else 0
overall_progress_of(satisfied_count, total_requirements) ==
    IF total_requirements > 0
    THEN Percentage(satisfied_count, total_requirements)
    ELSE Whole(0)

validate_requirements(db, program_table, program_code, completed_courses) ==
    IF program_code \notin DOMAIN program_table
    THEN Raised("ValueError")
    ELSE LET program == program_table[program_code]
             completed_set == completed_set_of(completed_courses)
             completed_courses_map == completed_courses_map_of(db, completed_set)
             total_credits_completed ==
                 SumCredits(DOMAIN completed_courses_map, completed_courses_map)
             requirements_progress ==
                 [i \in DOMAIN program.program_requirements |->
                     validate_single_requirement(program.program_requirements[i],
                                                 completed_set, completed_courses_map)]
             satisfied_count ==
                 Cardinality({i \in DOMAIN requirements_progress :
                                 requirements_progress[i].is_satisfied})
             total_requirements == Len(program.program_requirements)
             overall_progress == overall_progress_of(satisfied_count, total_requirements)
             is_complete ==
                 \A i \in DOMAIN requirements_progress :
                     requirements_progress[i].is_satisfied
         IN  Ok([program_code |-> program.code,
                 total_credits_required |-> program.total_credits,
                 total_credits_completed |-> total_credits_completed,
                 requirements |-> requirements_progress,
                 overall_progress |-> overall_progress,
                 is_complete |-> is_complete])

(***************************************************************************)
(* One requirement: every requirement of the four kinds, and of an unknown *)
(* kind, over course lists of at most MaxCourses codes, against every      *)
(* completed list over RawCompleted.  The catalog has three courses; "Z"   *)
(* is no course.                                                           *)
(***************************************************************************)
MaxCourses == 2
MaxChoose == 3
MaxCreditUnits == 3

RequirementCatalog ==
    ("A" :> Course("A", 3, "300", "X", JNone))
    @@ ("B" :> Course("B", 3, "200", "X", JNone))
    @@ ("C" :> Course("C", 6, "400", "Y", JNone))

ListedCodes == {"A", "B", "b"}
RawCompleted == {"A", " A", "b", "C", "Z"}

RECURSIVE ListsUpTo(_, _)
ListsUpTo(n, S) ==
    IF n = 0 THEN {<<>>}
    ELSE ListsUpTo(n - 1, S) \cup {Append(l, x) : l \in ListsUpTo(n - 1, S), x \in S}

CourseLists == ListsUpTo(MaxCourses, ListedCodes)
ChooseCounts == {JNone} \cup {JNum(n) : n \in -1..MaxChoose}
CreditsNeeded == {JNone} \cup {JNum(3 * k) : k \in -1..MaxCreditUnits}
LevelFilters == {<<>>, <<"300">>, <<"300", "400">>}
SubjectFilters == {JNone, JStr("X")}

SingleRequirements ==
    {Requirement("r1", "REQUIRED", l, JNone, JNone, <<>>, JNone, 0) : l \in CourseLists}
    \cup {Requirement("r1", "CHOICE", l, JNone, n, <<>>, JNone, 0) :
             l \in CourseLists, n \in ChooseCounts}
    \cup {Requirement("r1", "LEVEL_REQUIREMENT", <<>>, c, JNone, lf, sf, 0) :
             c \in CreditsNeeded, lf \in LevelFilters, sf \in SubjectFilters}
    \cup {Requirement("r1", t, <<>>, JNone, JNone, <<>>, JNone, 0) :
             t \in {"ELECTIVE", "SEMINAR"}}

InitRequirement ==
    /\ catalog = RequirementCatalog
    /\ programs \in {("P" :> Program("P", 120, JNone, <<req>>)) : req \in SingleRequirements}
    /\ call = NoCall
    /\ result = Pending
    /\ stack = <<>>
    /\ roadmap_cache = <<>>
    /\ now = 0

\* _validate_single_requirement on a requirement of the program, with the
\* completed set and the completed-course map validate_requirements builds.
ValidateSingleRequirement ==
    /\ call = NoCall
    /\ \E completed_courses \in SUBSET RawCompleted :
          LET req == programs["P"].program_requirements[1]
              completed_set == completed_set_of(completed_courses)
              completed_courses_map == completed_courses_map_of(catalog, completed_set)
          IN  /\ call' = [op |-> "_validate_single_requirement", req |-> req,
                          completed_set |-> completed_set]
              /\ result' = Ok(validate_single_requirement(req, completed_set,
                                                          completed_courses_map))
    /\ UNCHANGED <<roadmap_cache, now, catalog, programs, stack>>

NextRequirement == ValidateSingleRequirement

SpecRequirement == InitRequirement /\ [][NextRequirement]_vars

(***************************************************************************)
(* One requirement: the claims.                                            *)
(***************************************************************************)
Validated(type) ==
    /\ call.op = "_validate_single_requirement"
    /\ call.req.requirement_type = type

\* The number of entries of list L that are in C.
CountIn(L, C) == Cardinality({i \in DOMAIN L : L[i] \in C})

\* C4 as stated, L being the requirement's course list and C the completed
\* set: requiredCount is the size of L, completedCount the number of courses
\* of L in C, remainingCourses L minus C sorted, isSatisfied iff no course of
\* L is missing from C, progressPercentage completedCount/requiredCount x 100
\* (100 when L is empty).
C4_AsStated ==
    Validated("REQUIRED") =>
        LET L == call.req.courses
            C == call.completed_set
            p == result.value
        IN  /\ p.required_count = JNum(Len(L))
            /\ p.completed_count = CountIn(L, C)
            /\ p.remaining_courses = SortedSet(Range(L) \ C)
            /\ p.is_satisfied <=> Range(L) \subseteq C
            /\ p.progress_percentage =
                  (IF Len(L) = 0 THEN Whole(100) ELSE Percentage(CountIn(L, C), Len(L)))

\* C4 amended: the same with L read as the set of its distinct codes,
\* uppercased.
C4_RequiredProgress ==
    Validated("REQUIRED") =>
        LET L == {Upper(c) : c \in Range(call.req.courses)}
            C == call.completed_set
            p == result.value
        IN  /\ p.required_count = JNum(Cardinality(L))
            /\ p.completed_count = Cardinality(L \cap C)
            /\ p.remaining_courses = SortedSet(L \ C)
            /\ p.is_satisfied <=> L \subseteq C
            /\ p.progress_percentage =
                  (IF L = {} THEN Whole(100)
                   ELSE Percentage(Cardinality(L \cap C), Cardinality(L)))

\* One of two required courses done: half way, not satisfied.
C4_Witness ==
    /\ Validated("REQUIRED")
    /\ call.req.courses = <<"A", "b">>
    /\ call.completed_set = {"A", "C"}
    /\ result.value.completed_count = 1
    /\ result.value.remaining_courses = <<"B">>
    /\ ~result.value.is_satisfied
    /\ result.value.progress_percentage = Whole(50)

ChooseCountOf(req) == IF req.choose_count = JNone THEN 1 ELSE req.choose_count.num

\* C5 as stated: requiredCount is chooseCount, 1 only when chooseCount is
\* absent; completedCount is the number of the requirement's courses in the
\* completed set; isSatisfied iff completedCount >= chooseCount;
\* progressPercentage is min(completedCount/chooseCount x 100, 100).
C5_AsStated ==
    Validated("CHOICE") =>
        LET n == ChooseCountOf(call.req)
            p == result.value
        IN  /\ p.required_count = JNum(n)
            /\ p.completed_count = CountIn(call.req.courses, call.completed_set)
            /\ p.is_satisfied <=> p.completed_count >= n
            /\ n > 0 => p.progress_percentage =
                            AtMost100(Percentage(p.completed_count, n))

\* C5 amended: requiredCount is chooseCount, 1 when chooseCount is absent or
\* 0; completedCount is the number of the requirement's distinct uppercased
\* codes in the completed set; isSatisfied iff completedCount >=
\* requiredCount; progressPercentage is min(completedCount/requiredCount x
\* 100, 100), and 100 when requiredCount is negative.
C5_ChoiceProgress ==
    Validated("CHOICE") =>
        LET n == IF call.req.choose_count \in {JNone, JNum(0)} THEN 1
                 ELSE call.req.choose_count.num
            L == {Upper(c) : c \in Range(call.req.courses)}
            p == result.value
        IN  /\ p.required_count = JNum(n)
            /\ p.completed_count = Cardinality(L \cap call.completed_set)
            /\ p.is_satisfied <=> p.completed_count >= n
            /\ p.progress_percentage =
                  (IF n > 0 THEN AtMost100(Percentage(p.completed_count, n))
                   ELSE Whole(100))

\* Two courses done where one is asked for: satisfied, 100 and not 200.
C5_Witness ==
    /\ Validated("CHOICE")
    /\ call.req.choose_count = JNum(1)
    /\ call.req.courses = <<"A", "B">>
    /\ result.value.completed_count = 2
    /\ result.value.is_satisfied
    /\ result.value.progress_percentage = Whole(100)

\* Whether catalog course `code` passes the requirement's filters.
PassesFilters(code, req) ==
    /\ req.level_filter = <<>> \/ catalog[code].level \in Range(req.level_filter)
    /\ req.subject_filter = JNone \/ catalog[code].subject = req.subject_filter.str

\* The credits a completed code adds to a LEVEL_REQUIREMENT.
Contribution(code, req) ==
    IF code \in DOMAIN catalog /\ PassesFilters(code, req)
    THEN catalog[code].credits ELSE 0

RECURSIVE SumContributions(_, _)
SumContributions(codes, req) ==
    IF codes = {} THEN 0
    ELSE LET code == CHOOSE c \in codes : TRUE
         IN  Contribution(code, req) + SumContributions(codes \ {code}, req)

\* C6: for a LEVEL_REQUIREMENT completedCount is the sum of the credits of
\* the completed courses that pass the level filter (when non-empty) and the
\* subject filter (when set), a course failing a filter or absent from the
\* catalog adding 0; isSatisfied iff the sum >= creditsNeeded;
\* remainingCourses is empty.
C6_LevelProgress ==
    Validated("LEVEL_REQUIREMENT") =>
        LET needed == IF call.req.credits_needed = JNone THEN 0
                      ELSE call.req.credits_needed.num
            p == result.value
        IN  /\ p.completed_count = SumContributions(call.completed_set, call.req)
            /\ p.is_satisfied <=> p.completed_count >= needed
            /\ p.remaining_courses = <<>>

\* A 300-level X course counts; a 400-level course of another subject and a
\* code that is no course add nothing.
C6_Witness ==
    /\ Validated("LEVEL_REQUIREMENT")
    /\ call.req.level_filter = <<"300", "400">>
    /\ call.req.subject_filter = JStr("X")
    /\ call.req.credits_needed = JNum(6)
    /\ call.completed_set = {"A", "C", "Z"}
    /\ result.value.completed_count = 3
    /\ ~result.value.is_satisfied

(***************************************************************************)
(* A program: every list of at most MaxRequirements distinct requirements  *)
(* out of ProgramRequirements, in the order the database yields them,      *)
(* against every completed list over RawCompleted.  "NOPE" is no program.  *)
(***************************************************************************)
MaxRequirements == 2

ProgramRequirements ==
    {Requirement("r1", "REQUIRED", <<"A", "B">>, JNone, JNone, <<>>, JNone, 0),
     Requirement("r2", "CHOICE", <<"A", "C">>, JNone, JNum(1), <<>>, JNone, 1),
     Requirement("r3", "LEVEL_REQUIREMENT", <<>>, JNum(6), JNone,
                 <<"300", "400">>, JNone, 2),
     Requirement("r4", "ELECTIVE", <<>>, JNone, JNone, <<>>, JNone, 3)}

\* The lists without repetition of at most n elements of S.
RECURSIVE DistinctLists(_, _)
DistinctLists(n, S) ==
    IF n = 0 THEN {<<>>}
    ELSE DistinctLists(n - 1, S)
         \cup UNION {{Append(l, x) : x \in S \ Range(l)} : l \in DistinctLists(n - 1, S)}

ProgramTables ==
    {("P" :> Program("P", 120, JNone, reqs)) :
        reqs \in DistinctLists(MaxRequirements, ProgramRequirements)}

InitProgram ==
    /\ catalog = RequirementCatalog
    /\ programs \in ProgramTables
    /\ call = NoCall
    /\ result = Pending
    /\ stack = <<>>
    /\ roadmap_cache = <<>>
    /\ now = 0

ValidateRequirements ==
    /\ call = NoCall
    /\ \E program_code \in DOMAIN programs \cup {"NOPE"},
          completed_courses \in SUBSET RawCompleted :
          /\ call' = [op |-> "validate_requirements", program_code |-> program_code,
                      completed |-> completed_courses]
          /\ result' = validate_requirements(catalog, programs, program_code,
                                             completed_courses)
    /\ UNCHANGED <<roadmap_cache, now, catalog, programs, stack>>

NextProgram == ValidateRequirements

SpecProgram == InitProgram /\ [][NextProgram]_vars

(***************************************************************************)
(* A program: the claims.                                                  *)
(***************************************************************************)
ValidatedProgram == call.op = "validate_requirements" /\ result.status = "ok"

\* Whether requirement i of the program called for is satisfied by the
\* completed list of the call.
RequirementSatisfied(i) ==
    LET completed_set == completed_set_of(call.completed)
    IN  validate_single_requirement(
            programs[call.program_code].program_requirements[i], completed_set,
            completed_courses_map_of(catalog, completed_set)).is_satisfied

\* C7: overallProgress is satisfied requirements / requirements x 100, and 0
\* for a program without requirements; isComplete holds iff every requirement
\* of the program is satisfied.
C7_OverallProgress ==
    ValidatedProgram =>
        LET total == Len(programs[call.program_code].program_requirements)
            satisfied == Cardinality({i \in 1..total : RequirementSatisfied(i)})
        IN  /\ result.value.overall_progress =
                  (IF total = 0 THEN Whole(0) ELSE Percentage(satisfied, total))
            /\ result.value.is_complete <=> \A i \in 1..total : RequirementSatisfied(i)

\* Two requirements, the first satisfied and the second not: 50, incomplete.
C7_Witness ==
    /\ ValidatedProgram
    /\ Len(programs["P"].program_requirements) = 2
    /\ RequirementSatisfied(1) /\ ~RequirementSatisfied(2)
    /\ result.value.overall_progress = Whole(50)
    /\ ~result.value.is_complete


(***************************************************************************)
(* prerequisite_service._extract_course_codes                              *)
(*                                                                         *)
(* The codes are kept as they stand in the formula (no upper, no strip).   *)
(* list(set(codes)) raises TypeError on a code that is a dict, and .get    *)
(* raises AttributeError on a condition that is None.                      *)
(***************************************************************************)
Extracted(codes) == [error |-> "none", codes |-> codes]
ExtractRaised(error) == [error |-> error, codes |-> {}]

\* bool(code) is True
Truthy(code) == ~Falsy(code) /\ code # JNum(0)

RECURSIVE extract_course_codes(_)
RECURSIVE extend_codes(_, _, _)

\* for condition in conditions: codes.extend(_extract_course_codes(condition))
extend_codes(conditions, i, codes) ==
    IF i > Len(conditions)
    THEN Extracted(codes)
    ELSE LET sub == extract_course_codes(conditions[i])
         IN  IF sub.error # "none"
             THEN sub
             ELSE extend_codes(conditions, i + 1, codes \cup sub.codes)

extract_course_codes(formula) ==
    IF formula = JNone
    THEN ExtractRaised("AttributeError")
    ELSE LET formula_type == FormulaType(formula)
         IN  IF formula_type = "COURSE"
             THEN LET code == IF "code" \in DOMAIN formula THEN formula.code ELSE JNone
                  IN  IF ~Truthy(code) THEN Extracted({})
                      ELSE IF IsDict(code) THEN ExtractRaised("TypeError")
                      ELSE Extracted({code})
             ELSE IF formula_type \in {"AND", "OR"}
             THEN extend_codes(Conditions(formula), 1, {})
             ELSE Extracted({})

\* The orders in which list(set(codes)) can hand the codes out.
RECURSIVE Orders(_)
Orders(S) ==
    IF S = {} THEN {<<>>}
    ELSE UNION {{<<x>> \o rest : rest \in Orders(S \ {x})} : x \in S}

(***************************************************************************)
(* prerequisite_service.get_prerequisite_tree                              *)
(*                                                                         *)
(* The recursion is kept as the stack of its activations.  A frame holds   *)
(* the arguments of one activation (course_code, depth, its own visited    *)
(* set), the codes its loop has still to go through and the nodes it has   *)
(* collected.  max_depth is the same in every activation and stays in the  *)
(* call.                                                                   *)
(***************************************************************************)
PrerequisiteNode(course_code, depth, prerequisites, formula) ==
    [course_code |-> course_code, depth |-> depth,
     prerequisites |-> prerequisites, formula |-> formula]

Activation(course_code, depth, visited) ==
    [course_code |-> course_code, depth |-> depth, visited |-> visited,
     at |-> "guard", prerequisite_codes |-> <<>>, prerequisite_nodes |-> <<>>]

\* select(...).where(Course.code == course_code) finds a row
Found(db, course_code) == IsStr(course_code) /\ course_code.str \in DOMAIN db

\* depth > max_depth in place of depth >= max_depth
guard_off_by_one(depth, max_depth, course_code, visited) ==
    depth > max_depth \/ course_code \in visited

\* the guard without the visited test
guard_depth_only(depth, max_depth, course_code, visited) ==
    depth >= max_depth

\* if depth >= max_depth or course_code in visited
guard(depth, max_depth, course_code, visited) ==
    depth >= max_depth \/ course_code \in visited

Top == stack[Len(stack)]
Callers == SubSeq(stack, 1, Len(stack) - 1)

\* Return with the visited set shared by caller and callee (visited in place
\* of visited.copy()): what the callee added is seen by the caller.
ReturnSharingVisited(node) ==
    IF Len(stack) = 1
    THEN /\ stack' = <<>>
         /\ result' = Ok(node)
    ELSE /\ stack' = [Callers EXCEPT ![Len(stack) - 1].prerequisite_nodes =
                                        Append(@, node),
                                    ![Len(stack) - 1].visited = @ \cup Top.visited]
         /\ UNCHANGED result

\* The running activation returns node to its caller, which appends it.
Return(node) ==
    IF Len(stack) = 1
    THEN /\ stack' = <<>>
         /\ result' = Ok(node)
    ELSE /\ stack' = [Callers EXCEPT ![Len(stack) - 1].prerequisite_nodes =
                                        Append(@, node)]
         /\ UNCHANGED result

\* ValueError going through every activation instead of being caught
RaiseValueErrorUncaught ==
    /\ stack' = <<>>
    /\ result' = Raised("ValueError")

\* The running activation raises ValueError; its caller's loop passes.
RaiseValueError ==
    IF Len(stack) = 1
    THEN /\ stack' = <<>>
         /\ result' = Raised("ValueError")
    ELSE /\ stack' = Callers
         /\ UNCHANGED result

\* An error no activation catches ends the call.
RaiseUncaught(error) ==
    /\ stack' = <<>>
    /\ result' = Raised(error)

\* lines 101-115: the guard holds, the course comes back as a bare node.
TreeLeaf ==
    /\ stack # <<>>
    /\ Top.at = "guard"
    /\ guard(Top.depth, call.max_depth, Top.course_code, Top.visited)
    /\ IF Found(catalog, Top.course_code)
       THEN Return(PrerequisiteNode(Top.course_code.str, Top.depth, <<>>, JNone))
       ELSE RaiseValueError
    /\ UNCHANGED <<roadmap_cache, now, catalog, programs, call>>

\* lines 117-130: the course is marked visited and fetched, its codes extracted.
TreeExpand ==
    /\ stack # <<>>
    /\ Top.at = "guard"
    /\ ~guard(Top.depth, call.max_depth, Top.course_code, Top.visited)
    /\ IF ~Found(catalog, Top.course_code)
       THEN RaiseValueError
       ELSE LET course == catalog[Top.course_code.str]
                extracted == IF Falsy(course.prerequisite_formula)
                             THEN Extracted({})
                             ELSE extract_course_codes(course.prerequisite_formula)
            IN  IF extracted.error # "none"
                THEN RaiseUncaught(extracted.error)
                ELSE /\ \E prerequisite_codes \in Orders(extracted.codes) :
                          stack' = [stack EXCEPT ![Len(stack)] =
                                       [@ EXCEPT !.at = "loop",
                                                 !.visited = @ \cup {Top.course_code},
                                                 !.prerequisite_codes = prerequisite_codes]]
                     /\ UNCHANGED result
    /\ UNCHANGED <<roadmap_cache, now, catalog, programs, call>>

\* lines 131-135: the loop calls get_prerequisite_tree on the next code.
TreeRecurse ==
    /\ stack # <<>>
    /\ Top.at = "loop"
    /\ Top.prerequisite_codes # <<>>
    /\ stack' = Append([stack EXCEPT ![Len(stack)].prerequisite_codes = Tail(@)],
                       Activation(Head(Top.prerequisite_codes), Top.depth + 1,
                                  Top.visited))
    /\ UNCHANGED <<roadmap_cache, now, catalog, programs, call, result>>

\* lines 141-147: the loop is over, the node is returned.
TreeReturn ==
    /\ stack # <<>>
    /\ Top.at = "loop"
    /\ Top.prerequisite_codes = <<>>
    /\ Return(PrerequisiteNode(Top.course_code.str, Top.depth, Top.prerequisite_nodes,
                               catalog[Top.course_code.str].prerequisite_formula))
    /\ UNCHANGED <<roadmap_cache, now, catalog, programs, call>>



(***************************************************************************)
(* Tree building: every catalog of the courses A, B and C whose formulas   *)
(* hold at most MaxReferences course references in all, each to A, B, C or *)
(* to Z, which has no row.  A course may refer to itself, to a course that *)
(* refers back to it, and to the same course twice.  The tree is asked for *)
(* any of the four codes with max_depth in 0..MaxDepth.                    *)
(***************************************************************************)
MaxReferences == 3
MaxDepth == 3

TreeCourses == {"A", "B", "C"}
TreeCodes == TreeCourses \cup {"Z"}

\* The lists of n codes in ascending order, repeats included.
RECURSIVE CodeLists(_)
CodeLists(n) ==
    IF n = 0 THEN {<<>>}
    ELSE {Append(l, c) : l \in CodeLists(n - 1), c \in TreeCodes}

Ascending(l) == \A i \in 1..(Len(l) - 1) : ~StrLess(l[i + 1], l[i])

\* A formula that refers to the codes of l: a leaf, an AND of two leaves,
\* or an OR of a leaf and the formula of the rest.
RECURSIVE ReferenceFormula(_)
ReferenceFormula(l) ==
    IF l = <<>> THEN JNone
    ELSE IF Len(l) = 1 THEN CourseLeaf(l[1])
    ELSE IF Len(l) = 2 THEN AndNode(<<CourseLeaf(l[1]), CourseLeaf(l[2])>>)
    ELSE OrNode(<<CourseLeaf(l[1]), ReferenceFormula(Tail(l))>>)

References ==
    {l \in UNION {CodeLists(n) : n \in 0..MaxReferences} : Ascending(l)}

TreeCatalogs ==
    {[c \in TreeCourses |-> Course(c, 3, "200", "X", ReferenceFormula(refs[c]))] :
        refs \in {r \in [TreeCourses -> References] :
                     Len(r["A"]) + Len(r["B"]) + Len(r["C"]) <= MaxReferences}}

InitTree ==
    /\ catalog \in TreeCatalogs
    /\ programs = <<>>
    /\ call = NoCall
    /\ result = Pending
    /\ stack = <<>>
    /\ roadmap_cache = <<>>
    /\ now = 0

\* A caller asks for the tree of course_code: depth 0, visited None.
GetPrerequisiteTree ==
    /\ call = NoCall
    /\ \E course_code \in TreeCodes, max_depth \in 0..MaxDepth :
          /\ call' = [op |-> "get_prerequisite_tree", course_code |-> course_code,
                      max_depth |-> max_depth]
          /\ stack' = <<Activation(JStr(course_code), 0, {})>>
    /\ UNCHANGED <<roadmap_cache, now, catalog, programs, result>>

NextTree == GetPrerequisiteTree \/ TreeLeaf \/ TreeExpand \/ TreeRecurse \/ TreeReturn

SpecTree == InitTree /\ [][NextTree]_vars

\* A call that has started runs on: each step is the next statement of the
\* one coroutine the request awaits.
SpecTreeFair == SpecTree /\ WF_vars(NextTree)



(***************************************************************************)
(* Claims about the tree                                                   *)
(***************************************************************************)
TreeReturned ==
    /\ call.op = "get_prerequisite_tree"
    /\ result.status = "ok"

\* The nodes of a tree, each with the number of edges from the root to it
\* and the codes of the nodes above it.
RECURSIVE NodesOf(_, _, _)
NodesOf(node, level, above) ==
    {[node |-> node, level |-> level, above |-> above]}
    \cup UNION {NodesOf(node.prerequisites[i], level + 1,
                        above \cup {node.course_code})
                : i \in 1..Len(node.prerequisites)}

IsBare(node) == node.prerequisites = <<>> /\ node.formula = JNone

\* C8: in the tree returned by get_prerequisite_tree with maximum depth
\* max_depth >= 0, every node's depth is its distance from the root and is at
\* most max_depth, and a node at depth max_depth has no children and no
\* formula.
C8_DepthBound ==
    TreeReturned =>
        \A n \in NodesOf(result.value, 0, {}) :
            /\ n.node.depth = n.level
            /\ n.node.depth <= call.max_depth
            /\ n.node.depth = call.max_depth => IsBare(n.node)

\* A tree is returned in which a course that has a formula in the catalog
\* sits at depth max_depth > 0, below a parent that was expanded.
C8_Witness ==
    /\ TreeReturned
    /\ call.max_depth > 0
    /\ \E n \in NodesOf(result.value, 0, {}) :
          /\ n.level = call.max_depth
          /\ n.node.course_code \notin n.above
          /\ ~Falsy(catalog[n.node.course_code].prerequisite_formula)

\* C9: every call of get_prerequisite_tree comes to an end; in the tree it
\* returns, a course that is met again below itself is a node without children
\* and without formula; and the call returns a tree whenever the course asked
\* for has a row, cyclic references or not.
C9_Terminates ==
    /\ <>(result # Pending)
    /\ [](TreeReturned =>
             \A n \in NodesOf(result.value, 0, {}) :
                 n.node.course_code \in n.above => IsBare(n.node))
    /\ []((result # Pending /\ call.course_code \in DOMAIN catalog) => TreeReturned)

\* A tree is returned in which a course with a formula is met again below
\* itself, above the depth at which max_depth would have cut it.
C9_Witness ==
    /\ TreeReturned
    /\ \E n \in NodesOf(result.value, 0, {}) :
          /\ n.node.course_code \in n.above
          /\ n.level < call.max_depth
          /\ ~Falsy(catalog[n.node.course_code].prerequisite_formula)
          /\ IsBare(n.node)



(***************************************************************************)
(* requirement_service._course_satisfies_requirement                       *)
(***************************************************************************)
course_satisfies_requirement(course, req, completed_set) ==
    LET req_type == req.requirement_type
        listed == Upper(course.code) \in {Upper(c) : c \in Range(req.courses)}
        not_completed == Upper(course.code) \notin completed_set
    IN  CASE req_type = "REQUIRED" -> listed /\ not_completed
          [] req_type = "CHOICE" -> listed /\ not_completed
          [] req_type = "LEVEL_REQUIREMENT" ->
                 matches_filters(course, req) /\ not_completed
          [] req_type = "ELECTIVE" -> not_completed
          [] OTHER -> FALSE

\* The ids of the requirements of the list, in its order, that the course
\* would satisfy.
RECURSIVE satisfied_ids(_, _, _, _)
satisfied_ids(course, requirements, i, completed_set) ==
    IF i > Len(requirements) THEN <<>>
    ELSE (IF course_satisfies_requirement(course, requirements[i], completed_set)
          THEN <<requirements[i].id>> ELSE <<>>)
         \o satisfied_ids(course, requirements, i + 1, completed_set)

(***************************************************************************)
(* requirement_service.find_satisfiable_requirements                       *)
(***************************************************************************)
\* find_satisfiable_requirements without the test for the course's row
find_satisfiable_unchecked(db, program_table, program_code, course_code, completed) ==
    IF program_code \notin DOMAIN program_table
    THEN Raised("ValueError")
    ELSE IF course_code \notin DOMAIN db
    THEN Ok(<<>>)
    ELSE Ok(satisfied_ids(db[course_code],
                          program_table[program_code].program_requirements, 1,
                          completed_set_of(completed)))

find_satisfiable_requirements(db, program_table, program_code, course_code, completed) ==
    IF program_code \notin DOMAIN program_table
    THEN Raised("ValueError")       \* Program not found
    ELSE IF course_code \notin DOMAIN db
    THEN Raised("ValueError")       \* Course not found
    ELSE Ok(satisfied_ids(db[course_code],
                          program_table[program_code].program_requirements, 1,
                          completed_set_of(completed)))

(***************************************************************************)
(* requirement_service.get_next_available_courses                          *)
(*                                                                         *)
(* priority_score is kept in hundredths: the levels of the catalogs are    *)
(* multiples of 100, for which the float sums are exact.                   *)
(***************************************************************************)
AvailableCourse(course, prerequisites_met, satisfies, priority_score) ==
    [course_code |-> course.code, credits |-> course.credits, level |-> course.level,
     prerequisites_met |-> prerequisites_met, satisfies_requirements |-> satisfies,
     priority_score |-> priority_score]

\* int(course.level) if course.level.isdigit() else 0
level_value_of(level) ==
    CASE level = "100" -> 100
      [] level = "200" -> 200
      [] level = "300" -> 300
      [] level = "400" -> 400
      [] level = "500" -> 500
      [] OTHER -> 0

\* The codes gathered from the requirements: every listed code as written,
\* and every course that passes the filters of a LEVEL_REQUIREMENT.
all_requirement_courses_of(db, requirements) ==
    UNION {Range(requirements[i].courses) : i \in DOMAIN requirements}
    \cup {code \in DOMAIN db :
             \E i \in DOMAIN requirements :
                 /\ requirements[i].requirement_type = "LEVEL_REQUIREMENT"
                 /\ matches_filters(db[code], requirements[i])}

RECURSIVE requirement_score_choice_as_other(_, _, _, _)
RECURSIVE requirement_score(_, _, _, _)

\* requirement_score with a CHOICE requirement counting 2.0
requirement_score_choice_as_other(course, requirements, i, completed_set) ==
    IF i > Len(requirements) THEN 0
    ELSE (IF ~course_satisfies_requirement(course, requirements[i], completed_set)
          THEN 0
          ELSE IF requirements[i].requirement_type = "REQUIRED" THEN 1000
          ELSE 200)
         + requirement_score_choice_as_other(course, requirements, i + 1, completed_set)

\* 10.0 for REQUIRED, 5.0 for CHOICE, 2.0 for any other kind, per
\* requirement the course would satisfy
requirement_score(course, requirements, i, completed_set) ==
    IF i > Len(requirements) THEN 0
    ELSE (IF ~course_satisfies_requirement(course, requirements[i], completed_set)
          THEN 0
          ELSE IF requirements[i].requirement_type = "REQUIRED" THEN 1000
          ELSE IF requirements[i].requirement_type = "CHOICE" THEN 500
          ELSE 200)
         + requirement_score(course, requirements, i + 1, completed_set)

\* The body of the loop over the candidate courses.
available_course(db, course, requirements, completed, completed_set) ==
    LET prereq_result == check_prerequisites(db, course.code, completed)
        prerequisites_met == IF prereq_result.status = "ok"
                             THEN prereq_result.value.is_valid
                             ELSE FALSE           \* except ValueError
        priority_score ==
            requirement_score(course, requirements, 1, completed_set)
            + (IF prerequisites_met THEN 300 ELSE 0)
            + (600 - level_value_of(course.level))
    IN  AvailableCourse(course, prerequisites_met,
                        satisfied_ids(course, requirements, 1, completed_set),
                        priority_score)

\* list.sort(key=priority_score, reverse=True): equal scores keep their order
RECURSIVE sort_by_priority(_)
\* insert_by_priority putting x ahead of the entries of its own score
insert_ahead_of_ties(x, sorted) ==
    LET before == {i \in 1..Len(sorted) : sorted[i].priority_score > x.priority_score}
        k == Cardinality(before)
    IN  SubSeq(sorted, 1, k) \o <<x>> \o SubSeq(sorted, k + 1, Len(sorted))

insert_by_priority(x, sorted) ==
    LET before == {i \in 1..Len(sorted) : sorted[i].priority_score >= x.priority_score}
        k == Cardinality(before)
    IN  SubSeq(sorted, 1, k) \o <<x>> \o SubSeq(sorted, k + 1, Len(sorted))

sort_by_priority(list) ==
    IF list = <<>> THEN <<>>
    ELSE insert_by_priority(list[Len(list)],
                            sort_by_priority(SubSeq(list, 1, Len(list) - 1)))

\* row_order is the order in which the database yields the rows of courses.
get_next_available_courses(db, program_table, program_code, completed, row_order) ==
    IF program_code \notin DOMAIN program_table
    THEN Raised("ValueError")
    ELSE LET requirements == program_table[program_code].program_requirements
             completed_set == completed_set_of(completed)
             candidate_codes ==
                 all_requirement_courses_of(db, requirements) \ completed_set
             candidate_courses ==
                 SelectSeq(row_order, LAMBDA code : code \in candidate_codes)
             uncaught ==
                 \E i \in DOMAIN candidate_courses :
                     check_prerequisites(db, candidate_courses[i], completed)
                         = Raised("TypeError")
             available ==
                 [i \in DOMAIN candidate_courses |->
                     available_course(db, db[candidate_courses[i]], requirements,
                                      completed, completed_set)]
         IN  IF candidate_codes = {} THEN Ok(<<>>)
             ELSE IF uncaught THEN Raised("TypeError")
             ELSE Ok(sort_by_priority(available))



(***************************************************************************)
(* The five operations side by side: every catalog that holds some of the  *)
(* courses of SubjectCatalog, with no program or with the program "P" of   *)
(* MaxRequirements requirements.  The callers name courses and programs    *)
(* that are there and ones that are not.                                   *)
(***************************************************************************)
SubjectCatalog ==
    [c \in TreeCourses |->
        CASE c = "A" -> Course("A", 3, "300", "X", CourseLeaf("B"))
          [] c = "B" -> Course("B", 3, "200", "X", JNone)
          [] c = "C" -> Course("C", 6, "400", "Y",
                               AndNode(<<CourseLeaf("A"), CourseLeaf("Z")>>))]

SubjectCatalogs == {[c \in S |-> SubjectCatalog[c]] : S \in SUBSET TreeCourses}

SubjectPrograms ==
    {<<>>} \cup {t \in ProgramTables :
                    Len(t["P"].program_requirements) = MaxRequirements}

InitNotFound ==
    /\ catalog \in SubjectCatalogs
    /\ programs \in SubjectPrograms
    /\ call = NoCall
    /\ result = Pending
    /\ stack = <<>>
    /\ roadmap_cache = <<>>
    /\ now = 0

FindSatisfiableRequirements ==
    /\ call = NoCall
    /\ \E program_code \in DOMAIN programs \cup {"NOPE"},
          course_code \in DOMAIN catalog \cup {"Z"},
          completed \in SUBSET RawCompleted :
          /\ call' = [op |-> "find_satisfiable_requirements",
                      program_code |-> program_code, course_code |-> course_code,
                      completed |-> completed]
          /\ result' = find_satisfiable_requirements(catalog, programs, program_code,
                                                     course_code, completed)
    /\ UNCHANGED <<roadmap_cache, now, catalog, programs, stack>>

GetNextAvailableCourses ==
    /\ call = NoCall
    /\ \E program_code \in DOMAIN programs \cup {"NOPE"},
          completed \in SUBSET RawCompleted,
          row_order \in Orders(DOMAIN catalog) :
          /\ call' = [op |-> "get_next_available_courses",
                      program_code |-> program_code, completed |-> completed,
                      row_order |-> row_order]
          /\ result' = get_next_available_courses(catalog, programs, program_code,
                                                  completed, row_order)
    /\ UNCHANGED <<roadmap_cache, now, catalog, programs, stack>>

NextNotFound ==
    \/ CheckPrerequisites
    \/ GetPrerequisiteTree \/ TreeLeaf \/ TreeExpand \/ TreeRecurse \/ TreeReturn
    \/ FindSatisfiableRequirements
    \/ ValidateRequirements
    \/ GetNextAvailableCourses

SpecNotFound == InitNotFound /\ [][NextNotFound]_vars

(***************************************************************************)
(* Claims about absent subjects                                            *)
(***************************************************************************)
CourseAbsent == call.course_code \notin DOMAIN catalog
ProgramAbsent == call.program_code \notin DOMAIN programs

\* The course or program the caller names has no row.
SubjectAbsent ==
    CASE call.op \in {"check_prerequisites", "get_prerequisite_tree"} -> CourseAbsent
      [] call.op = "find_satisfiable_requirements" -> ProgramAbsent \/ CourseAbsent
      [] call.op \in {"validate_requirements", "get_next_available_courses"} ->
             ProgramAbsent
      [] OTHER -> FALSE

\* C10: a call of check_prerequisites or get_prerequisite_tree for a course
\* without a row, of find_satisfiable_requirements for a course or a program
\* without a row, and of validate_requirements or get_next_available_courses
\* for a program without a row ends with the not-found ValueError: once the
\* call is over its result is that error, and until then the only activation
\* is the one of the tree's root, about to look the course up.
C10_NotFound ==
    SubjectAbsent =>
        IF stack = <<>>
        THEN result = Raised("ValueError")
        ELSE /\ call.op = "get_prerequisite_tree"
             /\ stack = <<Activation(JStr(call.course_code), 0, {})>>
             /\ result = Pending

\* find_satisfiable_requirements has raised for a course without a row in a
\* program that is there.
C10_Witness ==
    /\ call.op = "find_satisfiable_requirements"
    /\ ~ProgramAbsent
    /\ CourseAbsent
    /\ result = Raised("ValueError")



(***************************************************************************)
(* Malformed formulas: every formula of at most MaxMalformedNodes nodes    *)
(* over a sound leaf, a leaf whose code is a number, a leaf whose code is  *)
(* null and a node of a type the evaluator does not know, as the           *)
(* prerequisite of course "T".                                             *)
(***************************************************************************)
MaxMalformedNodes == 3

NumberLeaf == [type |-> "COURSE", code |-> JNum(5)]
NullLeaf == [type |-> "COURSE", code |-> JNone]
UnknownNode == [type |-> "XOR"]

MalformedLeaves == {CourseLeaf("A"), NumberLeaf, NullLeaf, UnknownNode}

MalformedFormulas ==
    UNION {FormulasOfSize(n, MalformedLeaves) : n \in 1..MaxMalformedNodes}

MalformedCatalogs ==
    {("T" :> Course("T", 3, "200", "X", f)) : f \in MalformedFormulas}

InitMalformed ==
    /\ catalog \in MalformedCatalogs
    /\ programs = <<>>
    /\ call = NoCall
    /\ result = Pending
    /\ stack = <<>>
    /\ roadmap_cache = <<>>
    /\ now = 0

SpecMalformed == InitMalformed /\ [][NextEval]_vars

(***************************************************************************)
(* Malformed formulas: the claims.                                         *)
(***************************************************************************)
\* A COURSE leaf whose code is neither a string nor a nested formula, or a
\* node whose type is none of COURSE, AND, OR.
IsMalformedNode(f) ==
    /\ ~Falsy(f)
    /\ \/ FormulaType(f) \notin {"COURSE", "AND", "OR"}
       \/ /\ FormulaType(f) = "COURSE"
          /\ "code" \in DOMAIN f
          /\ ~IsStr(f.code) /\ ~IsDict(f.code)

RECURSIVE HasMalformedNode(_)
HasMalformedNode(f) ==
    \/ IsMalformedNode(f)
    \/ /\ ~Falsy(f)
       /\ FormulaType(f) \in {"AND", "OR"}
       /\ \E i \in DOMAIN Conditions(f) : HasMalformedNode(Conditions(f)[i])

\* Satisfaction with a malformed node counting as unsatisfied.
RECURSIVE SatisfiedSkippingMalformed(_, _)
SatisfiedSkippingMalformed(f, C) ==
    IF Falsy(f) THEN TRUE
    ELSE IF IsMalformedNode(f) THEN FALSE
    ELSE IF FormulaType(f) = "COURSE" THEN Upper(f.code.str) \in C
    ELSE IF FormulaType(f) = "AND"
    THEN \A i \in DOMAIN Conditions(f) :
             SatisfiedSkippingMalformed(Conditions(f)[i], C)
    ELSE \E i \in DOMAIN Conditions(f) :
             SatisfiedSkippingMalformed(Conditions(f)[i], C)

\* The string codes of the leaves of a formula.
RECURSIVE StringCodes(_)
StringCodes(f) ==
    IF Falsy(f) \/ IsMalformedNode(f) THEN {}
    ELSE IF FormulaType(f) = "COURSE" THEN {f.code.str}
    ELSE UNION {StringCodes(Conditions(f)[i]) : i \in DOMAIN Conditions(f)}

CheckedExisting ==
    /\ call.op = "check_prerequisites"
    /\ call.course_code \in DOMAIN catalog

\* C11: for a course that exists, whatever malformed nodes its formula holds,
\* check_prerequisites returns a result and raises nothing; in the result a
\* malformed node counts as unsatisfied and the missing and satisfied lists
\* hold codes of sound leaves only.
C11_MalformedNeverFails ==
    CheckedExisting =>
        LET f == catalog[call.course_code].prerequisite_formula
        IN  /\ result.status = "ok"
            /\ result.value.is_valid
                   <=> SatisfiedSkippingMalformed(f, completed_set_of(call.completed))
            /\ Range(result.value.missing_courses) \subseteq StringCodes(f)
            /\ Range(result.value.satisfied_prerequisites) \subseteq StringCodes(f)



(***************************************************************************)
(* Missing descendants                                                     *)
(***************************************************************************)
\* A tree without the order of its children.
RECURSIVE Unordered(_)
Unordered(node) ==
    [course_code |-> node.course_code, depth |-> node.depth, formula |-> node.formula,
     prerequisites |-> {Unordered(node.prerequisites[i]) :
                           i \in DOMAIN node.prerequisites}]

\* The tree of a course that has a row, built from the rows alone: below the
\* guard the children are the trees of the referenced codes that have a row,
\* as if the codes without one were not referenced at all.
RECURSIVE TreeOfExisting(_, _, _, _, _)
TreeOfExisting(db, course_code, depth, max_depth, path) ==
    IF depth >= max_depth \/ course_code \in path
    THEN [course_code |-> course_code, depth |-> depth, formula |-> JNone,
          prerequisites |-> {}]
    ELSE [course_code |-> course_code, depth |-> depth,
          formula |-> db[course_code].prerequisite_formula,
          prerequisites |->
              {TreeOfExisting(db, c, depth + 1, max_depth, path \cup {course_code}) :
                  c \in StringCodes(db[course_code].prerequisite_formula)
                            \cap DOMAIN db}]

TreeCallOver ==
    /\ call.op = "get_prerequisite_tree"
    /\ stack = <<>>

\* C12: the call fails exactly when the root course has no row; otherwise it
\* returns the tree in which every node's children are the trees of the
\* referenced codes that have a row, the codes without one being left out
\* and changing nothing else.
C12_MissingDescendantSkipped ==
    TreeCallOver =>
        IF call.course_code \notin DOMAIN catalog
        THEN result = Raised("ValueError")
        ELSE /\ result.status = "ok"
             /\ Unordered(result.value)
                    = TreeOfExisting(catalog, call.course_code, 0, call.max_depth, {})

\* A tree is returned in which a node whose formula refers to the missing Z
\* has kept another child.
C12_Witness ==
    /\ TreeReturned
    /\ \E n \in NodesOf(result.value, 0, {}) :
          /\ "Z" \in StringCodes(n.node.formula)
          /\ n.node.prerequisites # <<>>



(***************************************************************************)
(* Recommendation: the catalog AvailableCatalog, in every order in which   *)
(* the database may yield its rows, with a program of at most              *)
(* MaxRequirements requirements out of AvailableRequirements, against      *)
(* every completed list over RawCompleted.  The course b has its code in   *)
(* lower case; b and C are alike but for their subject; D has a level that *)
(* is no number; Z and B have no row.  The requirement q6 is of a kind the *)
(* service does not know.                                                  *)
(***************************************************************************)
AvailableCatalog ==
    [c \in {"A", "b", "C", "D"} |->
        CASE c = "A" -> Course("A", 3, "100", "X", JNone)
          [] c = "b" -> Course("b", 3, "200", "X", CourseLeaf("A"))
          [] c = "C" -> Course("C", 3, "200", "Y", CourseLeaf("A"))
          [] c = "D" -> Course("D", 3, "GRAD", "X", JNone)]

AvailableRequirements ==
    {Requirement("q1", "REQUIRED", <<"A", "b">>, JNone, JNone, <<>>, JNone, 0),
     Requirement("q2", "CHOICE", <<"b", "C", "Z">>, JNone, JNum(1), <<>>, JNone, 1),
     Requirement("q3", "LEVEL_REQUIREMENT", <<>>, JNum(3), JNone,
                 <<"200">>, JStr("X"), 2),
     Requirement("q4", "ELECTIVE", <<>>, JNone, JNone, <<>>, JNone, 3),
     Requirement("q5", "REQUIRED", <<"B", "D">>, JNone, JNone, <<>>, JNone, 4),
     Requirement("q6", "OPTIONAL", <<"D">>, JNone, JNone, <<>>, JNone, 5)}

AvailablePrograms ==
    {("P" :> Program("P", 120, JNone, reqs)) :
        reqs \in DistinctLists(MaxRequirements, AvailableRequirements)}

InitAvailable ==
    /\ catalog = AvailableCatalog
    /\ programs \in AvailablePrograms
    /\ call = NoCall
    /\ result = Pending
    /\ stack = <<>>
    /\ roadmap_cache = <<>>
    /\ now = 0

NextAvailable == GetNextAvailableCourses \/ FindSatisfiableRequirements

SpecAvailable == InitAvailable /\ [][NextAvailable]_vars

(***************************************************************************)
(* Recommendation: the claims.                                             *)
(***************************************************************************)
Recommended ==
    /\ call.op = "get_next_available_courses"
    /\ result.status = "ok"

RequirementsCalled == programs[call.program_code].program_requirements

\* How many of the requirements an entry is reported to satisfy are of one
\* of the given kinds.
SatisfiedOfKind(entry, kinds) ==
    Cardinality({i \in DOMAIN RequirementsCalled :
                    /\ RequirementsCalled[i].requirement_type \in kinds
                    /\ RequirementsCalled[i].id \in Range(entry.satisfies_requirements)})

\* The numeric level, or 0 for a level that is no number.
LevelValue(entry) ==
    IF entry.level \in {"100", "200", "300", "400", "500"}
    THEN level_value_of(entry.level) ELSE 0

\* C13: the priority score of every returned course, in hundredths, is
\* 1000 per REQUIRED requirement it satisfies + 500 per CHOICE + 200 per
\* LEVEL_REQUIREMENT or ELECTIVE + 300 if its prerequisites are met
\* + (600 - levelValue); and of two returned courses equal in all but level
\* the one of the lower level scores strictly higher.
C13_PriorityScore ==
    Recommended =>
        /\ \A i \in DOMAIN result.value :
              LET e == result.value[i]
              IN  e.priority_score =
                      1000 * SatisfiedOfKind(e, {"REQUIRED"})
                      + 500 * SatisfiedOfKind(e, {"CHOICE"})
                      + 200 * SatisfiedOfKind(e, {"LEVEL_REQUIREMENT", "ELECTIVE"})
                      + (IF e.prerequisites_met THEN 300 ELSE 0)
                      + (600 - LevelValue(e))
        /\ \A i, j \in DOMAIN result.value :
              LET e == result.value[i]
                  f == result.value[j]
              IN  (/\ \A kinds \in {{"REQUIRED"}, {"CHOICE"},
                                    {"LEVEL_REQUIREMENT", "ELECTIVE"}} :
                          SatisfiedOfKind(e, kinds) = SatisfiedOfKind(f, kinds)
                   /\ e.prerequisites_met = f.prerequisites_met
                   /\ LevelValue(e) < LevelValue(f))
                  => e.priority_score > f.priority_score

\* A course that satisfies a REQUIRED and a CHOICE requirement with its
\* prerequisites met is returned next to a course whose level is no number.
C13_Witness ==
    /\ Recommended
    /\ \E i, j \in DOMAIN result.value :
          /\ result.value[i].priority_score = 1000 + 500 + 300 + 400
          /\ result.value[j].level = "GRAD"
          /\ result.value[j].priority_score = 1000 + 300 + 600



\* The place of a code in the order in which the database yielded the rows.
Yielded(code) == CHOOSE k \in DOMAIN call.row_order : call.row_order[k] = code

\* C14: the returned list is in non-increasing order of priority score, and
\* two entries of equal score stand in the order in which the database
\* yielded their rows.
C14_Ordered ==
    Recommended =>
        \A i, j \in DOMAIN result.value :
            i < j =>
                \/ result.value[i].priority_score > result.value[j].priority_score
                \/ /\ result.value[i].priority_score = result.value[j].priority_score
                   /\ Yielded(result.value[i].course_code)
                          < Yielded(result.value[j].course_code)

\* C and b are returned with equal scores, C first as the database yielded it.
C14_Witness ==
    /\ Recommended
    /\ Len(result.value) = 2
    /\ result.value[1].course_code = "C"
    /\ result.value[2].course_code = "b"
    /\ result.value[1].priority_score = result.value[2].priority_score



\* The codes the requirements list, as written.
ListedByRequirements ==
    UNION {Range(RequirementsCalled[i].courses) : i \in DOMAIN RequirementsCalled}

\* The catalog courses that pass the level and subject filters of some
\* LEVEL_REQUIREMENT.
MatchingLevelRequirement ==
    {code \in DOMAIN catalog :
        \E i \in DOMAIN RequirementsCalled :
            /\ RequirementsCalled[i].requirement_type = "LEVEL_REQUIREMENT"
            /\ RequirementsCalled[i].level_filter # <<>>
                   => catalog[code].level \in Range(RequirementsCalled[i].level_filter)
            /\ ~Falsy(RequirementsCalled[i].subject_filter)
                   => catalog[code].subject = RequirementsCalled[i].subject_filter.str}

ReturnedCodes == {result.value[i].course_code : i \in DOMAIN result.value}

\* The returned codes are the listed and the matching ones, less the
\* completed set, that have a row.
C15_ExactSet ==
    Recommended =>
        ReturnedCodes = ((ListedByRequirements \cup MatchingLevelRequirement)
                            \ completed_set_of(call.completed))
                        \cap DOMAIN catalog

\* C15: the returned codes are exactly the codes listed by a requirement or
\* matching a LEVEL_REQUIREMENT, less the completed codes, that have a row;
\* and no course of the completed list is returned.
C15_NoCompletedReturned ==
    Recommended =>
        /\ ReturnedCodes = ((ListedByRequirements \cup MatchingLevelRequirement)
                               \ completed_set_of(call.completed))
                           \cap DOMAIN catalog
        /\ ReturnedCodes \cap call.completed = {}



(***************************************************************************)
(* course_satisfies_requirement against requirement evaluation             *)
(***************************************************************************)
FoundSatisfiable ==
    /\ call.op = "find_satisfiable_requirements"
    /\ result.status = "ok"

\* The matching rule of requirement evaluation, kind by kind: the course is
\* listed (REQUIRED, CHOICE), it passes the filters (LEVEL_REQUIREMENT), or
\* any course does (ELECTIVE and every other kind).
MatchesLikeEvaluation(course, req) ==
    IF req.requirement_type \in {"REQUIRED", "CHOICE"}
    THEN Upper(course.code) \in {Upper(c) : c \in Range(req.courses)}
    ELSE IF req.requirement_type = "LEVEL_REQUIREMENT"
    THEN /\ req.level_filter # <<>> => course.level \in Range(req.level_filter)
         /\ ~Falsy(req.subject_filter) => course.subject = req.subject_filter.str
    ELSE TRUE

\* Requirement i is among those the course called for is found to satisfy
\* exactly when the rule of its kind matches and the course is not completed.
MirrorsEvaluation(i) ==
    LET req == RequirementsCalled[i]
        course == catalog[call.course_code]
    IN  req.id \in Range(result.value)
            <=> /\ MatchesLikeEvaluation(course, req)
                /\ Upper(course.code) \notin completed_set_of(call.completed)

\* C16: a course satisfies a requirement exactly when the matching rule of
\* requirement evaluation holds for the requirement's kind, an unknown kind
\* being handled like ELECTIVE, and the course is not in the completed set.
C16_MirrorsEvaluation ==
    FoundSatisfiable => \A i \in DOMAIN RequirementsCalled : MirrorsEvaluation(i)

\* The same for the requirements of the four known kinds.
C16_KnownKinds ==
    FoundSatisfiable =>
        \A i \in DOMAIN RequirementsCalled :
            RequirementsCalled[i].requirement_type
                \in {"REQUIRED", "CHOICE", "LEVEL_REQUIREMENT", "ELECTIVE"}
            => MirrorsEvaluation(i)



\* C17: every course get_next_available_courses returns has its
\* prerequisites met by the completed list.
C17_PrerequisitesMet ==
    Recommended =>
        \A i \in DOMAIN result.value :
            /\ result.value[i].prerequisites_met
            /\ Satisfied(catalog[result.value[i].course_code].prerequisite_formula,
                         completed_set_of(call.completed))

\* The flag of every returned course tells whether its formula is satisfied.
C17_FlagAccurate ==
    Recommended =>
        \A i \in DOMAIN result.value :
            result.value[i].prerequisites_met
                <=> Satisfied(catalog[result.value[i].course_code].prerequisite_formula,
                              completed_set_of(call.completed))



(***************************************************************************)
(* requirement_service.apply_special_rules                                 *)
(*                                                                         *)
(* special_rules is None or a dict that may hold the keys "exclusions",    *)
(* "substitutions" and "additional_requirements".  A warning is kept as    *)
(* the list of the pieces its f-string puts together.                      *)
(***************************************************************************)
SpecialRulesResult(excluded, warnings, substitutions, additional) ==
    [excluded_courses |-> excluded, warnings |-> warnings,
     substitutions_needed |-> substitutions, additional_requirements |-> additional]

\* special_rules.get(key, [])
RulesGet(special_rules, key) ==
    IF key \in DOMAIN special_rules THEN special_rules[key] ELSE <<>>

ExclusionWarning(course_a, excluded_course) ==
    <<"'", course_a, "' excludes '", excluded_course,
      "'. Cannot count both toward degree.">>

SubstitutionWarning(from_course, to_course) ==
    <<"'", from_course, "' should be substituted with '", to_course, "'">>

\* The excluded codes one rule yields, in the order of its excludes list.
RECURSIVE hits_of(_, _, _)

\* hits_of without the test that the excluded course is among the courses
hits_of_any(excludes, j, courses_set) ==
    [k \in DOMAIN excludes |-> Upper(excludes[k])]

hits_of(excludes, j, courses_set) ==
    IF j > Len(excludes) THEN <<>>
    ELSE (IF Upper(excludes[j]) \in courses_set THEN <<Upper(excludes[j])>> ELSE <<>>)
         \o hits_of(excludes, j + 1, courses_set)

\* The loop over the exclusions: the pairs (course_a, excluded_course) that
\* are appended, in order.
RECURSIVE exclusion_pairs(_, _, _)
exclusion_pairs(exclusions, i, courses_set) ==
    IF i > Len(exclusions) THEN <<>>
    ELSE LET exclusion == exclusions[i]
             course_a == Upper(IF "course" \in DOMAIN exclusion
                               THEN exclusion.course ELSE "")
             excludes == IF "excludes" \in DOMAIN exclusion
                         THEN exclusion.excludes ELSE <<>>
             hits == IF IsDict(exclusion) /\ course_a \in courses_set
                     THEN hits_of(excludes, 1, courses_set)
                     ELSE <<>>
         IN  [k \in DOMAIN hits |-> [course_a |-> course_a, excluded_course |-> hits[k]]]
             \o exclusion_pairs(exclusions, i + 1, courses_set)

\* The loop over the substitutions.
RECURSIVE substitutions_of(_, _, _)
substitutions_of(subs, i, courses_set) ==
    IF i > Len(subs) THEN <<>>
    ELSE LET sub == subs[i]
             from_course == IF "from" \in DOMAIN sub THEN sub.from ELSE ""
             to_course == IF "to" \in DOMAIN sub THEN sub.to ELSE ""
         IN  (IF IsDict(sub) /\ Upper(from_course) \in courses_set
              THEN <<[from |-> from_course, to |-> to_course]>>
              ELSE <<>>)
             \o substitutions_of(subs, i + 1, courses_set)

apply_special_rules(program, courses) ==
    LET special_rules == IF Falsy(program.special_rules)
                         THEN EmptyDict ELSE program.special_rules
        courses_set == {Normalize(c) : c \in courses}
        pairs == exclusion_pairs(RulesGet(special_rules, "exclusions"), 1, courses_set)
        substitutions ==
            substitutions_of(RulesGet(special_rules, "substitutions"), 1, courses_set)
        additional_reqs == RulesGet(special_rules, "additional_requirements")
    IN  Ok(SpecialRulesResult(
               [k \in DOMAIN pairs |-> pairs[k].excluded_course],
               [k \in DOMAIN pairs |->
                   ExclusionWarning(pairs[k].course_a, pairs[k].excluded_course)]
               \o [k \in DOMAIN substitutions |->
                      SubstitutionWarning(substitutions[k].from, substitutions[k].to)],
               substitutions,
               [k \in DOMAIN SelectSeq(additional_reqs, IsStr) |->
                   SelectSeq(additional_reqs, IsStr)[k].str]))



(***************************************************************************)
(* Special rules: a program whose special_rules are None or hold at most   *)
(* MaxRules exclusions out of ExclusionRules, one of the lists of          *)
(* substitutions and one of the lists of additional requirements, against  *)
(* every list of courses over RawCompleted.                                *)
(***************************************************************************)
MaxRules == 2

ExclusionRule(course, excludes) == [course |-> course, excludes |-> excludes]

ExclusionRules ==
    {ExclusionRule("A", <<"b", "C">>),
     ExclusionRule("b", <<"A">>),
     ExclusionRule(" A", <<"C">>),
     ExclusionRule("Z", <<"A", "A">>),
     JStr("A")}

SubstitutionLists ==
    {<<>>, <<[from |-> "A", to |-> "D"]>>, <<[from |-> "b", to |-> "D"], JStr("A")>>}

AdditionalLists == {<<>>, <<JStr("A"), JNum(1)>>}

SpecialRules ==
    {JNone, EmptyDict, [exclusions |-> <<ExclusionRule("A", <<"C">>)>>]}
    \cup {[exclusions |-> e, substitutions |-> s, additional_requirements |-> a] :
             e \in DistinctLists(MaxRules, ExclusionRules),
             s \in SubstitutionLists, a \in AdditionalLists}

RulePrograms == {("P" :> Program("P", 120, rules, <<>>)) : rules \in SpecialRules}

InitRules ==
    /\ catalog = <<>>
    /\ programs \in RulePrograms
    /\ call = NoCall
    /\ result = Pending
    /\ stack = <<>>
    /\ roadmap_cache = <<>>
    /\ now = 0

ApplySpecialRules ==
    /\ call = NoCall
    /\ \E program_code \in DOMAIN programs, courses \in SUBSET RawCompleted :
          /\ call' = [op |-> "apply_special_rules", program_code |-> program_code,
                      courses |-> courses]
          /\ result' = apply_special_rules(programs[program_code], courses)
    /\ UNCHANGED <<roadmap_cache, now, catalog, programs, stack>>

NextRules == ApplySpecialRules

SpecRules == InitRules /\ [][NextRules]_vars

(***************************************************************************)
(* Special rules: the claims.                                              *)
(***************************************************************************)
RulesApplied == call.op = "apply_special_rules" /\ result.status = "ok"

\* The exclusion rules of the program called for: the dicts of its list.
ExclusionsCalled ==
    LET rules == programs[call.program_code].special_rules
        list == IF "exclusions" \in DOMAIN rules THEN rules.exclusions ELSE <<>>
    IN  {list[i] : i \in {k \in DOMAIN list : IsDict(list[k])}}

NormalizedInput == {Normalize(c) : c \in call.courses}

\* C18 as stated: a code is excluded exactly when some rule has its course
\* in the normalized input and the code is in the rule's excludes list and in
\* the normalized input; each hit has its warning; every excluded code is in
\* the input.
C18_AsStated ==
    RulesApplied =>
        /\ \A code \in Range(result.value.excluded_courses) \cup NormalizedInput :
              code \in Range(result.value.excluded_courses)
                  <=> \E rule \in ExclusionsCalled :
                          /\ rule.course \in NormalizedInput
                          /\ code \in Range(rule.excludes)
                          /\ code \in NormalizedInput
        /\ \A rule \in ExclusionsCalled :
              \A code \in Range(rule.excludes) :
                  (rule.course \in NormalizedInput /\ code \in NormalizedInput)
                      => ExclusionWarning(rule.course, code)
                             \in Range(result.value.warnings)
        /\ Range(result.value.excluded_courses) \subseteq NormalizedInput

\* C18 amended: the same with the rule's course and the codes of its
\* excludes list taken in upper case.
C18_Exclusions ==
    RulesApplied =>
        /\ \A code \in Range(result.value.excluded_courses) \cup NormalizedInput :
              code \in Range(result.value.excluded_courses)
                  <=> \E rule \in ExclusionsCalled :
                          /\ Upper(rule.course) \in NormalizedInput
                          /\ code \in {Upper(x) : x \in Range(rule.excludes)}
                          /\ code \in NormalizedInput
        /\ \A rule \in ExclusionsCalled :
              \A x \in Range(rule.excludes) :
                  (Upper(rule.course) \in NormalizedInput /\ Upper(x) \in NormalizedInput)
                      => ExclusionWarning(Upper(rule.course), Upper(x))
                             \in Range(result.value.warnings)
        /\ Range(result.value.excluded_courses) \subseteq NormalizedInput

\* The rule of course "b", written in lower case, has excluded A for an
\* input that holds both, and the rule of course Z, absent from the input,
\* has excluded nothing.
C18_Witness ==
    /\ RulesApplied
    /\ ExclusionsCalled = {ExclusionRule("b", <<"A">>), ExclusionRule("Z", <<"A", "A">>)}
    /\ NormalizedInput = {"A", "B"}
    /\ result.value.excluded_courses = <<"A">>



(***************************************************************************)
(* The lists of a prerequisite check                                       *)
(***************************************************************************)
Checked == call.op = "check_prerequisites" /\ result.status = "ok"

\* Ascending in the order of str, equal neighbours allowed.
IsSorted(list) == \A i \in 1..(Len(list) - 1) : ~StrLess(list[i + 1], list[i])

NoDuplicates(list) == \A i, j \in DOMAIN list : list[i] = list[j] => i = j

\* C19: in every result of check_prerequisites the missing and the satisfied
\* list are each in ascending order and without a repeated code.
C19_SortedNoDuplicates ==
    Checked =>
        /\ IsSorted(result.value.missing_courses)
        /\ NoDuplicates(result.value.missing_courses)
        /\ IsSorted(result.value.satisfied_prerequisites)
        /\ NoDuplicates(result.value.satisfied_prerequisites)

\* Both lists are in ascending order.
C19_Sorted ==
    Checked =>
        /\ IsSorted(result.value.missing_courses)
        /\ IsSorted(result.value.satisfied_prerequisites)



(***************************************************************************)
(* Normalization: the four operations that compare codes, over the catalog *)
(* and the programs of the recommendation.                                 *)
(***************************************************************************)
NextNormalization ==
    \/ CheckPrerequisites
    \/ ValidatePrerequisiteFormula
    \/ ValidateRequirements
    \/ GetNextAvailableCourses

SpecNormalization == InitAvailable /\ [][NextNormalization]_vars

\* The codes that differ from code in letter case or surrounding whitespace
\* only, code itself among them.
CodeVariants(code) == {v \in Range(StringOrder) : Normalize(v) = Normalize(code)}

\* A completed list with one of its codes replaced by a variant.
CompletedVariants(completed) ==
    UNION {{(completed \ {c}) \cup {v} : v \in CodeVariants(c)} : c \in completed}

\* A formula with the code of one of its leaves replaced by a variant.
RECURSIVE FormulaVariants(_)
FormulaVariants(f) ==
    IF Falsy(f) THEN {}
    ELSE IF FormulaType(f) = "COURSE"
    THEN {CourseLeaf(v) : v \in CodeVariants(f.code.str)}
    ELSE UNION {{[f EXCEPT !.conditions[i] = g] : g \in FormulaVariants(f.conditions[i])}
                : i \in DOMAIN f.conditions}

CatalogVariants(db) ==
    UNION {{[db EXCEPT ![c].prerequisite_formula = g] :
               g \in FormulaVariants(db[c].prerequisite_formula)}
           : c \in DOMAIN db}

\* A programs table with one code of one requirement's course list
\* replaced by a variant.
ProgramVariants(program_table) ==
    UNION {UNION {UNION {{[program_table EXCEPT
                             ![p].program_requirements[i].courses[j] = v] :
                            v \in CodeVariants(
                                     program_table[p].program_requirements[i].courses[j])}
                         : j \in DOMAIN program_table[p].program_requirements[i].courses}
                  : i \in DOMAIN program_table[p].program_requirements}
           : p \in DOMAIN program_table}

\* The operation of a call, on the tables given.
Outcome(db, program_table, c) ==
    CASE c.op = "check_prerequisites" ->
             check_prerequisites(db, c.course_code, c.completed)
      [] c.op = "validate_prerequisite_formula" ->
             Ok(validate_prerequisite_formula(c.formula, c.completed))
      [] c.op = "validate_requirements" ->
             validate_requirements(db, program_table, c.program_code, c.completed)
      [] c.op = "get_next_available_courses" ->
             get_next_available_courses(db, program_table, c.program_code,
                                        c.completed, c.row_order)

\* What an outcome decides, with the codes it reports left aside: the
\* verdict of a check, the counts and flags of a validation, the whole list
\* of a recommendation.
Decision(c, outcome) ==
    IF outcome.status # "ok" THEN outcome
    ELSE CASE c.op = "check_prerequisites" -> outcome.value.is_valid
           [] c.op = "validate_requirements" ->
                  [overall_progress |-> outcome.value.overall_progress,
                   is_complete |-> outcome.value.is_complete,
                   requirements |->
                       [i \in DOMAIN outcome.value.requirements |->
                           [is_satisfied |-> outcome.value.requirements[i].is_satisfied,
                            completed_count |->
                                outcome.value.requirements[i].completed_count,
                            progress_percentage |->
                                outcome.value.requirements[i].progress_percentage]]]
           [] OTHER -> outcome.value

Compared ==
    call.op \in {"check_prerequisites", "validate_prerequisite_formula",
                 "validate_requirements", "get_next_available_courses"}

\* C20: what check_prerequisites, validate_prerequisite_formula,
\* validate_requirements and get_next_available_courses decide does not change
\* when one code of the completed list, of a formula leaf or of a
\* requirement's course list is replaced by a variant that differs in letter
\* case or surrounding whitespace only.
C20_NormalizationInvariant ==
    Compared =>
        /\ \A completed \in CompletedVariants(call.completed) :
              Decision(call, Outcome(catalog, programs,
                                     [call EXCEPT !.completed = completed]))
                  = Decision(call, result)
        /\ call.op = "validate_prerequisite_formula" =>
              \A g \in FormulaVariants(call.formula) :
                  Decision(call, Outcome(catalog, programs, [call EXCEPT !.formula = g]))
                      = Decision(call, result)
        /\ call.op # "validate_prerequisite_formula" =>
              \A db \in CatalogVariants(catalog) :
                  Decision(call, Outcome(db, programs, call)) = Decision(call, result)
        /\ \A program_table \in ProgramVariants(programs) :
              Decision(call, Outcome(catalog, program_table, call))
                  = Decision(call, result)

(***************************************************************************)
(* One requirement: the range of the progress percentage and its agreement *)
(* with is_satisfied.  The credits of a course are positive.               *)
(***************************************************************************)
ValidatedAny == call.op = "_validate_single_requirement" /\ result.status = "ok"

\* 0 <= x <= 100
InRange(x) == x.den > 0 /\ x.num >= 0 /\ x.num <= 100 * x.den

\* C21: for every requirement of the four kinds, or of an unknown kind, and
\* every completed set, the reported progress_percentage lies between 0 and
\* 100, both included.
C21_ProgressInRange ==
    ValidatedAny => InRange(result.value.progress_percentage)

\* More courses of a CHOICE list are completed than it asks for, and a
\* LEVEL_REQUIREMENT has more matching credits than it needs: the
\* percentage is 100, not more.
C21_Witness ==
    /\ ValidatedAny
    /\ \/ /\ call.req.requirement_type = "CHOICE"
          /\ result.value.required_count = JNum(1)
          /\ result.value.completed_count = 2
       \/ /\ call.req.requirement_type = "LEVEL_REQUIREMENT"
          /\ result.value.required_count = JNum(3)
          /\ result.value.completed_count = 9
    /\ result.value.progress_percentage = Whole(100)

\* C29: for every requirement of any kind and every completed set, course
\* credits being non-negative, is_satisfied is true exactly when
\* progress_percentage is 100.
C29_SatisfiedIffFull ==
    ValidatedAny =>
        (result.value.is_satisfied <=> result.value.progress_percentage = Whole(100))

\* A LEVEL_REQUIREMENT whose matching credits equal the credits it needs is
\* satisfied at 100 percent.
C29_Witness ==
    /\ ValidatedAny
    /\ call.req.requirement_type = "LEVEL_REQUIREMENT"
    /\ result.value.required_count = JNum(3)
    /\ result.value.completed_count = 3
    /\ result.value.is_satisfied
    /\ result.value.progress_percentage = Whole(100)

(***************************************************************************)
(* A program: is_complete against overall_progress.                        *)
(***************************************************************************)
\* C30 as stated: for every program, one without requirements included, and
\* every completed list, is_complete is true exactly when overall_progress
\* is 100.
C30_AsStated ==
    ValidatedProgram =>
        (result.value.is_complete <=> result.value.overall_progress = Whole(100))

\* C30: for every program with at least one requirement and every completed
\* list, is_complete is true exactly when overall_progress is 100; a program
\* without requirements is complete at an overall_progress of 0.
C30_CompleteIffFull ==
    ValidatedProgram =>
        IF programs[call.program_code].program_requirements # <<>>
        THEN result.value.is_complete <=> result.value.overall_progress = Whole(100)
        ELSE result.value.is_complete /\ result.value.overall_progress = Whole(0)

\* Both requirements of a program are satisfied.
C30_Witness ==
    /\ ValidatedProgram
    /\ Len(result.value.requirements) = 2
    /\ result.value.is_complete
    /\ result.value.overall_progress = Whole(100)

(***************************************************************************)
(* A program: the order of the progress entries.  The requirements of a    *)
(* program are loaded through a relationship without an ordering, so that  *)
(* program_requirements is the list in the order the database yields it.   *)
(***************************************************************************)
\* order_index of the requirement a progress entry reports on
OrderIndexOf(entry) ==
    LET reqs == programs[call.program_code].program_requirements
    IN  reqs[CHOOSE i \in DOMAIN reqs : reqs[i].id = entry.requirement_id].order_index

\* C22: the progress entries of validate_requirements are listed in
\* ascending order_index, whatever the order the requirements are stored in.
C22_AscendingOrderIndex ==
    ValidatedProgram =>
        \A i, j \in DOMAIN result.value.requirements :
            i < j => OrderIndexOf(result.value.requirements[i])
                        <= OrderIndexOf(result.value.requirements[j])

\* The entries follow the order in which the requirements are yielded.
C22_YieldOrder ==
    ValidatedProgram =>
        LET reqs == programs[call.program_code].program_requirements
        IN  /\ Len(result.value.requirements) = Len(reqs)
            /\ \A i \in DOMAIN reqs :
                  result.value.requirements[i].requirement_id = reqs[i].id

(***************************************************************************)
(* Extraction: the course A carries every formula of at most               *)
(* MaxExtractNodes nodes over leaves that are well formed (codes A and B), *)
(* that miss their code, that hold a number for a code, or that hold a     *)
(* nested formula for a code.  B has no formula.  The codes of A's formula *)
(* are extracted on their own and by the tree builder.                     *)
(***************************************************************************)
MaxExtractNodes == 3

MissingCodeLeaf == [type |-> "COURSE"]
NestedLeaf == [type |-> "COURSE", code |-> CourseLeaf("B")]

ExtractLeaves == {CourseLeaf("A"), CourseLeaf("B"), MissingCodeLeaf, NumberLeaf, NestedLeaf}

ExtractFormulas ==
    UNION {FormulasOfSize(n, ExtractLeaves) : n \in 1..MaxExtractNodes}

ExtractCatalogs ==
    {("A" :> Course("A", 3, "200", "X", f)) @@ ("B" :> Course("B", 3, "100", "X", JNone)) :
        f \in ExtractFormulas}

InitExtract ==
    /\ catalog \in ExtractCatalogs
    /\ programs = <<>>
    /\ call = NoCall
    /\ result = Pending
    /\ stack = <<>>
    /\ roadmap_cache = <<>>
    /\ now = 0

\* _extract_course_codes on the formula of a course, as the tree builder
\* hands it over; list(set(codes)) yields the codes in some order.
ExtractCourseCodes ==
    /\ call = NoCall
    /\ \E code \in DOMAIN catalog :
          LET formula == catalog[code].prerequisite_formula
              extracted == extract_course_codes(formula)
          IN  /\ ~Falsy(formula)
              /\ call' = [op |-> "_extract_course_codes", formula |-> formula]
              /\ IF extracted.error # "none"
                 THEN result' = Raised(extracted.error)
                 ELSE \E codes \in Orders(extracted.codes) : result' = Ok(codes)
    /\ UNCHANGED <<roadmap_cache, now, catalog, programs, stack>>

NextExtract == ExtractCourseCodes \/ NextTree

SpecExtract == InitExtract /\ [][NextExtract]_vars

(***************************************************************************)
(* Extraction: the claims.                                                 *)
(***************************************************************************)
\* The string codes of the COURSE leaves reachable through AND and OR nodes.
RECURSIVE LeafStringCodes(_)
LeafStringCodes(f) ==
    IF FormulaType(f) = "COURSE"
    THEN IF "code" \in DOMAIN f /\ IsStr(f.code) THEN {f.code} ELSE {}
    ELSE IF FormulaType(f) \in {"AND", "OR"}
    THEN UNION {LeafStringCodes(Conditions(f)[i]) : i \in DOMAIN Conditions(f)}
    ELSE {}

\* Whether some reachable COURSE leaf misses its code or holds a code that
\* is not a string.
RECURSIVE HasMalformedLeaf(_)
HasMalformedLeaf(f) ==
    IF FormulaType(f) = "COURSE"
    THEN "code" \notin DOMAIN f \/ ~IsStr(f.code)
    ELSE /\ FormulaType(f) \in {"AND", "OR"}
         /\ \E i \in DOMAIN Conditions(f) : HasMalformedLeaf(Conditions(f)[i])

ExtractOver == call.op = "_extract_course_codes"

\* C23: _extract_course_codes returns exactly the string codes of the COURSE
\* leaves reachable through AND and OR nodes, each once; a leaf that misses
\* its code or whose code is not a string is ignored, and makes neither the
\* extraction nor the tree build of an existing course fail.
C23_ExtractsStringCodes ==
    /\ ExtractOver =>
          /\ result.status = "ok"
          /\ Range(result.value) = LeafStringCodes(call.formula)
          /\ NoDuplicates(result.value)
    /\ (TreeCallOver /\ call.course_code \in DOMAIN catalog) => result.status = "ok"

\* Over formulas whose reachable COURSE leaves all hold a string code the
\* extraction and the tree build are as C23 wants them.
C23_WellFormedLeaves ==
    /\ (ExtractOver /\ ~HasMalformedLeaf(call.formula)) =>
          /\ result.status = "ok"
          /\ Range(result.value) = LeafStringCodes(call.formula)
          /\ NoDuplicates(result.value)
    /\ (TreeCallOver /\ call.course_code \in DOMAIN catalog
            /\ \A c \in DOMAIN catalog :
                  Falsy(catalog[c].prerequisite_formula)
                  \/ ~HasMalformedLeaf(catalog[c].prerequisite_formula))
          => result.status = "ok"

\* A leaf without a code alone is ignored.
C23_MissingCodeIgnored ==
    (ExtractOver /\ call.formula = AndNode(<<CourseLeaf("A"), MissingCodeLeaf>>))
        => result = Ok(<<JStr("A")>>)

(***************************************************************************)
(* Shared prerequisites: every catalog of the courses A, B, C and D with   *)
(* at most MaxEdges references in all from one course to another, so that  *)
(* D can be a prerequisite of both B and C, themselves prerequisites of A, *)
(* and have a prerequisite of its own.                                     *)
(***************************************************************************)
MaxEdges == 5

DiamondCourses == {"A", "B", "C", "D"}

Edges == {e \in DiamondCourses \X DiamondCourses : e[1] # e[2]}

EdgeSets == {E \in SUBSET Edges : Cardinality(E) <= MaxEdges}

DiamondCatalogs ==
    {[c \in DiamondCourses |->
         Course(c, 3, "200", "X",
                ReferenceFormula(SortedSet({e[2] : e \in {x \in E : x[1] = c}})))] :
        E \in EdgeSets}

InitDiamond ==
    /\ catalog \in DiamondCatalogs
    /\ programs = <<>>
    /\ call = NoCall
    /\ result = Pending
    /\ stack = <<>>
    /\ roadmap_cache = <<>>
    /\ now = 0

SpecDiamond == InitDiamond /\ [][NextTree]_vars

(***************************************************************************)
(* Shared prerequisites: the claims.                                       *)
(***************************************************************************)
\* The codes of the activations 1..k of the stack: the path from the root.
PathCodes(k) == {stack[j].course_code : j \in 1..k}

\* The codes of the children of a node.
ChildCodes(node) == {node.prerequisites[i].course_code : i \in DOMAIN node.prerequisites}

\* C24: the visited set of an activation is the set of the codes on the
\* path from the root to it, its own code included once it is expanded, so
\* that nothing a sibling subtree added is in it; and in the tree returned
\* a course above max_depth that is not below itself is expanded, with its
\* formula and the children its formula refers to, under every parent.
C24_VisitedIsPath ==
    /\ \A k \in DOMAIN stack :
          stack[k].visited = PathCodes(IF stack[k].at = "loop" THEN k ELSE k - 1)
    /\ TreeReturned =>
          \A n \in NodesOf(result.value, 0, {}) :
              (n.level < call.max_depth /\ n.node.course_code \notin n.above) =>
                  /\ n.node.formula = catalog[n.node.course_code].prerequisite_formula
                  /\ ChildCodes(n.node)
                         = StringCodes(catalog[n.node.course_code].prerequisite_formula)
                              \cap DOMAIN catalog

\* D is a prerequisite of the siblings B and C and has a prerequisite of
\* its own: it is expanded, with its child, under B and under C.
C24_Witness ==
    /\ TreeReturned
    /\ call.course_code = "A"
    /\ ChildCodes(result.value) = {"B", "C"}
    /\ \A i \in DOMAIN result.value.prerequisites :
          \E j \in DOMAIN result.value.prerequisites[i].prerequisites :
              LET d == result.value.prerequisites[i].prerequisites[j]
              IN  d.course_code = "D" /\ d.prerequisites # <<>>

(***************************************************************************)
(* roadmap_service: the cache                                              *)
(***************************************************************************)
CACHE_TTL_SECONDS == 3600

\* _get_cache_key: the digest of the request's fields, taken as one-to-one;
\* sorted(completed_courses) makes the order of the list immaterial.  The
\* other fields of a request are the same in every call.
get_cache_key(request) ==
    [program_code |-> request.program_code,
     completed_courses |-> SortedSet(request.completed_courses)]

\* The entry _get_cached_roadmap returns, JNone for none.
get_cached_roadmap(cache, cache_key, utcnow) ==
    IF cache_key \in DOMAIN cache /\ utcnow - cache[cache_key].cached_at < CACHE_TTL_SECONDS
    THEN cache[cache_key].roadmap
    ELSE JNone

\* The cache _get_cached_roadmap leaves: an expired entry is deleted.
after_lookup(cache, cache_key, utcnow) ==
    IF cache_key \in DOMAIN cache /\ ~(utcnow - cache[cache_key].cached_at < CACHE_TTL_SECONDS)
    THEN [k \in DOMAIN cache \ {cache_key} |-> cache[k]]
    ELSE cache

\* _roadmap_cache[cache_key] = (roadmap, datetime.utcnow())
cache_roadmap(cache, cache_key, roadmap, utcnow) ==
    [k \in DOMAIN cache \cup {cache_key} |->
        IF k = cache_key THEN [roadmap |-> roadmap, cached_at |-> utcnow] ELSE cache[k]]

\* the response of a failed last attempt stored like a valid one
cache_anyway(cache, cache_key, roadmap, utcnow) ==
    cache_roadmap(cache, cache_key, roadmap, utcnow)

\* The last attempt failed: the response is returned and nothing is stored.
keep_cache(cache, cache_key, roadmap, utcnow) == cache

(***************************************************************************)
(* roadmap_service: the plan and its validation                            *)
(***************************************************************************)
\* What _call_openai_api and the parsing of its answer come to: the codes
\* of the planned courses, or RoadmapGenerationError.
Plan(codes) == [plan |-> codes]
LLMFailure == [failure |-> TRUE]

LevelOrder == <<"100", "200", "300", "400", "500", "999", "GRAD">>

\* (courses_map.get(c.code.upper(), Course(level="999")).level, c.code)
level_key(db, code) == IF Upper(code) \in DOMAIN db THEN db[Upper(code)].level ELSE "999"

\* the sort key of a is lower than that of b
plan_less(db, a, b) ==
    LET rank(l) == CHOOSE i \in DOMAIN LevelOrder : LevelOrder[i] = l
    IN  \/ rank(level_key(db, a)) < rank(level_key(db, b))
        \/ level_key(db, a) = level_key(db, b) /\ StrLess(a, b)

\* optimize_course_distribution: the courses of a semester sorted by level,
\* then code.
RECURSIVE optimize_course_distribution(_, _)
optimize_course_distribution(db, codes) ==
    IF codes = {} THEN <<>>
    ELSE LET first == CHOOSE c \in codes : \A o \in codes \ {c} : plan_less(db, c, o)
         IN  <<first>> \o optimize_course_distribution(db, codes \ {first})

\* roadmap.RequirementProgress, as _validate_generated_plan fills it
PlanProgress(req) ==
    LET credits_needed == IF req.required_count = JNone \/ req.required_count.num = 0
                          THEN 0 ELSE req.required_count.num
    IN  [requirement_id |-> req.requirement_id, requirement_type |-> req.requirement_type,
         credits_needed |-> credits_needed, credits_completed |-> req.completed_count,
         credits_planned |-> IF req.is_satisfied THEN credits_needed
                             ELSE req.completed_count,
         is_satisfied |-> req.is_satisfied, courses_used |-> req.completed_courses]

\* lines 446-468: is_valid and the progress list, from the validation result
plan_validation(validation_result) ==
    IF validation_result.status # "ok"
    THEN [is_valid |-> FALSE, requirement_progress |-> <<>>]
    ELSE [is_valid |-> \A i \in DOMAIN validation_result.value.requirements :
                           validation_result.value.requirements[i].is_satisfied,
          requirement_progress |->
              [i \in DOMAIN validation_result.value.requirements |->
                  PlanProgress(validation_result.value.requirements[i])]]

\* _validate_generated_plan; validate_requirements is called once.
validate_generated_plan(db, program_table, program, semesters, completed_courses) ==
    LET all_planned_courses == completed_courses \cup Range(semesters)
    IN  CHOOSE validated \in
            {plan_validation(validation_result) : validation_result \in
                {validate_requirements(db, program_table, program.code,
                                       all_planned_courses)}} : TRUE

RoadmapResponse(program, semesters, requirement_progress, is_valid) ==
    [program_code |-> program.code, semesters |-> semesters,
     requirement_progress |-> requirement_progress,
     credits_needed |-> program.total_credits, is_valid |-> is_valid]

(***************************************************************************)
(* roadmap_service.generate_roadmap                                        *)
(*                                                                         *)
(* The outcome of a call and the cache it leaves.  llm holds what the      *)
(* model answers at the first and at the second generation attempt.        *)
(***************************************************************************)
Generated(outcome, cache) == [outcome |-> outcome, cache |-> cache]

RECURSIVE generation_attempt(_, _, _, _, _, _, _, _)

\* lines 584-631: what an attempt comes to once its plan is validated
attempt_outcome(db, program_table, cache, utcnow, request, program, llm, attempt, semesters, validated) ==
    LET response == RoadmapResponse(program, semesters, validated.requirement_progress,
                                    validated.is_valid)
    IN  IF validated.is_valid
        THEN Generated(Ok(response),
                       cache_roadmap(cache, get_cache_key(request), response, utcnow))
        ELSE IF attempt = 1
        THEN Generated(Ok(response),
                       keep_cache(cache, get_cache_key(request), response, utcnow))
        ELSE generation_attempt(db, program_table, cache, utcnow, request, program,
                                llm, attempt + 1)

\* lines 543-631: generation attempt number attempt (0 or 1); the plan is
\* validated once.
generation_attempt(db, program_table, cache, utcnow, request, program, llm, attempt) ==
    IF llm[attempt + 1] = LLMFailure
    THEN Generated(Raised("RoadmapGenerationError"), cache)
    ELSE CHOOSE generated \in
             {attempt_outcome(db, program_table, cache, utcnow, request, program, llm,
                              attempt, semesters, validated) :
                 semesters \in {optimize_course_distribution(db, llm[attempt + 1].plan)},
                 validated \in
                     {validate_generated_plan(db, program_table, program,
                          optimize_course_distribution(db, llm[attempt + 1].plan),
                          request.completed_courses)}} : TRUE

\* The available courses only go into the prompt, and what the model answers
\* is any of the outcomes of llm: the rows are taken in the order of their codes.
generate_roadmap(db, program_table, cache, utcnow, request, llm) ==
    LET cache_key == get_cache_key(request)
        cached == get_cached_roadmap(cache, cache_key, utcnow)
        looked_up == after_lookup(cache, cache_key, utcnow)
    IN  IF cached # JNone
        THEN Generated(Ok(cached), looked_up)
        ELSE IF request.program_code \notin DOMAIN program_table
        THEN Generated(Raised("ValueError"), looked_up)
        ELSE LET available_courses ==
                     get_next_available_courses(db, program_table, request.program_code,
                                                request.completed_courses,
                                                SortedSet(DOMAIN db))
             IN  IF available_courses = Raised("ValueError")
                 THEN Generated(Raised("ValueError"), looked_up)
                 ELSE IF available_courses.status = "raised"
                 THEN Generated(Raised("RoadmapGenerationError"), looked_up)
                 ELSE generation_attempt(db, program_table, looked_up, utcnow, request,
                                         program_table[request.program_code], llm, 0)

(***************************************************************************)
(* Roadmap generation: the catalog of three courses and the program P,     *)
(* which requires A and B and one of A and C; requests for P or for a      *)
(* program that does not exist, with nothing or A completed; every plan    *)
(* over B and C, or a failure, at each attempt.  With A completed the      *)
(* plans that hold B are valid; with nothing completed no plan is.  Time   *)
(* passes in steps of TickSeconds, up to MaxTicks of them.                 *)
(***************************************************************************)
MaxTicks == 3
TickSeconds == 1800

RoadmapCompleted == {"A"}
PlanCodes == {"B", "C"}

LLMOutcomes == {LLMFailure} \cup {Plan(codes) : codes \in SUBSET PlanCodes}

RoadmapRequest(program_code, completed_courses) ==
    [program_code |-> program_code, completed_courses |-> completed_courses]

RoadmapRequirements ==
    <<Requirement("r1", "REQUIRED", <<"A", "B">>, JNone, JNone, <<>>, JNone, 0),
      Requirement("r2", "CHOICE", <<"A", "C">>, JNone, JNum(1), <<>>, JNone, 1)>>

RoadmapPrograms == ("P" :> Program("P", 120, JNone, RoadmapRequirements))

InitRoadmap ==
    /\ catalog = RequirementCatalog
    /\ programs = RoadmapPrograms
    /\ call = NoCall
    /\ result = Pending
    /\ stack = <<>>
    /\ roadmap_cache = <<>>
    /\ now = 0

\* One call of generate_roadmap, from the lookup to the return or the raise.
GenerateRoadmap ==
    /\ \E program_code \in DOMAIN programs \cup {"NOPE"},
          completed_courses \in SUBSET RoadmapCompleted,
          llm \in LLMOutcomes \X LLMOutcomes :
          \E generated \in {generate_roadmap(catalog, programs, roadmap_cache, now,
                                 RoadmapRequest(program_code, completed_courses), llm)} :
              /\ call' = [op |-> "generate_roadmap", program_code |-> program_code,
                          completed |-> completed_courses]
              /\ result' = generated.outcome
              /\ roadmap_cache' = generated.cache
    /\ UNCHANGED <<catalog, programs, stack, now>>

\* Time passes between two calls.
Tick ==
    /\ now < MaxTicks * TickSeconds
    /\ now' = now + TickSeconds
    /\ UNCHANGED <<catalog, programs, call, result, stack, roadmap_cache>>

NextRoadmap == GenerateRoadmap \/ Tick

SpecRoadmap == InitRoadmap /\ [][NextRoadmap]_vars

(***************************************************************************)
(* Roadmap generation: the claims.                                         *)
(***************************************************************************)
Generating == call.op = "generate_roadmap"

CacheAllValid == \A k \in DOMAIN roadmap_cache : roadmap_cache[k].roadmap.is_valid

\* A response returned with is_valid false is not in the cache.
InvalidNotStored ==
    (Generating /\ result.status = "ok" /\ ~result.value.is_valid) =>
        \A k \in DOMAIN roadmap_cache : roadmap_cache[k].roadmap # result.value

\* The step is a call of generate_roadmap that raises.
RaisingCall == now' = now /\ call'.op = "generate_roadmap" /\ result'.status = "raised"

\* The key of the request of the call made in the step.
CalledKey == get_cache_key(RoadmapRequest(call'.program_code, call'.completed))

\* C25 as stated: every entry of the cache is a response with is_valid true,
\* a response returned with is_valid false is never stored, and a call that
\* raises leaves the cache as it was.
C25_AsStated ==
    /\ [](CacheAllValid /\ InvalidNotStored)
    /\ [][RaisingCall => roadmap_cache' = roadmap_cache]_vars

\* C25: every entry of the cache is a response with is_valid true, a
\* response returned with is_valid false is never stored, and a call that
\* raises stores nothing: it leaves the cache as it was but for the entry
\* of its own key, which it removes when that entry has expired.
C25_CacheHoldsValid ==
    /\ [](CacheAllValid /\ InvalidNotStored)
    /\ [][RaisingCall =>
             \/ roadmap_cache' = roadmap_cache
             \/ /\ CalledKey \in DOMAIN roadmap_cache
                /\ now - roadmap_cache[CalledKey].cached_at >= CACHE_TTL_SECONDS
                /\ roadmap_cache' = [k \in DOMAIN roadmap_cache \ {CalledKey} |->
                                        roadmap_cache[k]]]_vars

\* A plan that fails validation at the last attempt has been returned with
\* is_valid false while the cache holds a valid response of an earlier call.
C25_Witness ==
    /\ Generating
    /\ result.status = "ok"
    /\ ~result.value.is_valid
    /\ roadmap_cache # <<>>
    /\ CacheAllValid

(***************************************************************************)
(* Formula evaluation: the missing and the satisfied list, and more        *)
(* courses completed.                                                      *)
(***************************************************************************)
\* C26: every code of the satisfied list is, uppercased, in the completed
\* set, and every code of the missing list is not; the two lists share no
\* code.
C26_ListsApart ==
    Evaluated =>
        /\ \A i \in DOMAIN result.value.satisfied :
              Upper(result.value.satisfied[i]) \in call.completed
        /\ \A i \in DOMAIN result.value.missing :
              Upper(result.value.missing[i]) \notin call.completed
        /\ Range(result.value.satisfied) \cap Range(result.value.missing) = {}

\* An unsatisfied AND with a code in each list, one of them in lower case.
C26_Witness ==
    /\ Evaluated
    /\ result.value.satisfied # <<>>
    /\ result.value.missing # <<>>
    /\ "b" \in Range(result.value.satisfied) \cup Range(result.value.missing)

\* Built from COURSE leaves with string codes and from AND and OR nodes
\* with at least one child.
RECURSIVE FullyFormed(_)
FullyFormed(f) ==
    /\ ~Falsy(f)
    /\ \/ DOMAIN f = {"type", "code"} /\ f.type = "COURSE" /\ IsStr(f.code)
       \/ /\ DOMAIN f = {"type", "conditions"} /\ f.type \in {"AND", "OR"}
          /\ f.conditions # <<>>
          /\ \A i \in DOMAIN f.conditions : FullyFormed(f.conditions[i])

\* C27: a formula reported satisfied has an empty missing list; a formula
\* of string-coded COURSE leaves and of AND and OR nodes with at least one
\* child that is reported unsatisfied has a missing list that is not empty.
C27_MissingIffUnsatisfied ==
    Evaluated =>
        /\ result.value.is_valid => result.value.missing = <<>>
        /\ (FullyFormed(call.formula) /\ ~result.value.is_valid)
              => result.value.missing # <<>>

\* An OR is satisfied by its second child after its first one failed, and
\* its missing list is empty.
C27_Witness ==
    /\ Evaluated
    /\ call.formula = OrNode(<<CourseLeaf("A"), CourseLeaf("b")>>)
    /\ call.completed = {"B"}
    /\ result.value = Evaluation(TRUE, <<>>, <<"b">>)

\* C28: a formula reported satisfied against the completed set C is
\* reported satisfied against every completed set that includes C.
C28_Monotone ==
    (Evaluated /\ result.value.is_valid) =>
        \A D \in SUBSET CompletedCodes :
            call.completed \subseteq D => evaluate_formula(call.formula, D).is_valid

\* An OR of two leaves holds by one of them, and still holds with both.
C28_Witness ==
    /\ Evaluated
    /\ call.formula = OrNode(<<CourseLeaf("A"), CourseLeaf("b")>>)
    /\ call.completed = {"A"}
    /\ result.value.is_valid
    /\ evaluate_formula(call.formula, {"A", "B"}).is_valid

=============================================================================
